---- MODULE Spec2Model ----
(***************************************************************************)
(* Worker loop and request lifecycle of the crawler (Crawler.run,          *)
(* Crawler.processOne and the completion protocol), together with the      *)
(* queue broker, the lock service and the timers the loops suspend on.     *)
(*                                                                         *)
(* Every loop is a chain of promise callbacks.  A program counter per loop *)
(* names the callback that runs next, or the external call the loop is     *)
(* waiting on.  External calls (pop, lock, fetch, upsert, repush,          *)
(* pushDead, unlock, done, abandon) return in separate actions and may     *)
(* fail.                                                                   *)
(***************************************************************************)
EXTENDS Integers, Sequences, FiniteSets, Bags, TLC

\* ---------------------------------------------------------------- bounds
MaxQueue == 2       \* messages in the broker when the crawler starts
MaxPromises == 2    \* enqueues one Processor handler tracks on a request

\* ------------------------------------------------------ program constants
MaxAttempts == 5
PollingDelay == 2000
ProcessorVersion == 3

Loops == {"0", "1"}                 \* loop names
Urls == {"u1", "u2"}                \* resource locators
NoCount == -1                       \* attemptCount not set (undefined)
Stopped == -1                       \* the delay sentinel that ends a loop
ElapsedChoices == {0, PollingDelay \div 2, PollingDelay + 1}

VARIABLES
  queue,      \* broker: bag of deliverable entries of the live queues
  leases,     \* lock service: urls with a live lease
  active,     \* loops the supervisor has started
  loops,      \* supervisor: the list this.loops of the loops it holds
  options,    \* supervisor: this.options, the configuration
  timer,      \* per loop: delays of the wake-up timers that are pending
  proc,       \* Processor: << >>, or the request in process() and what it did
  loopState,  \* per loop: CrawlerLoop {state}, and how the last call of run()
              \* or stop() on it ended
  pc,         \* per loop: callback to run next / external call in flight
  box,        \* per loop: requestBox of the current cycle, << >> or <<request>>
  comp,       \* per loop: progress of _completeRequest in the current cycle
  log,        \* per loop: external calls and their results in the current cycle
  ctx,        \* per loop: context {delay, currentDelay}, and the Date.now() that
              \* _computeDelay read last
  doneCalls   \* per loop: number of times context.done was invoked

vars ==
  <<queue, leases, active, loops, options, timer, proc, loopState, pc, box, comp, log, ctx, doneCalls>>

\* ------------------------------------------------------------------ Request

Truthy(s) == s # ""

\* new Request(type, url, context)
NewRequest(type, url, context) ==
  [ type |-> type, url |-> url, context |-> context, policy |-> "default",
    attemptCount |-> NoCount, lock |-> "", processControl |-> "",
    outcome |-> "", message |-> "", promises |-> << >>, document |-> "",
    version |-> 0, nextRequestTime |-> 0, delivery |-> << >> ]

ShouldRequeue(r) == r.processControl = "requeue"

ShouldSkip(r) == r.processControl = "skip" \/ r.processControl = "requeue"

MarkSkip(r, outcome, message) ==
  IF ShouldSkip(r) THEN r
  ELSE [r EXCEPT !.processControl = "skip",
                 !.outcome = IF Truthy(r.outcome) THEN r.outcome ELSE outcome,
                 !.message = IF Truthy(r.message) THEN r.message ELSE message]

MarkRequeue(r, outcome, message) ==
  IF ShouldRequeue(r) THEN r
  ELSE [r EXCEPT !.processControl = "requeue",
                 !.outcome = IF Truthy(r.outcome) THEN r.outcome ELSE outcome,
                 !.message = IF Truthy(r.message) THEN r.message ELSE message]

\* request.delay(ms): times are relative to the start of the cycle, 0 = not set
Delay(r, ms) == [r EXCEPT !.nextRequestTime = ms]

\* request.track(promise)
Track(r, n) == [r EXCEPT !.promises = r.promises \o [i \in 1..n |-> "pending"]]

\* ------------------------------------------------------------------- broker

Message(type, url, policy, count) ==
  [type |-> type, url |-> url, context |-> "c1", policy |-> policy, attemptCount |-> count]

Fresh == Message("repo", "u1", "p1", NoCount)

\* an entry of the live queue: the message, and its history: the attemptCount
\* of the message it descends from, then the attemptCount of every repush
Entry(msg, trail) == [msg |-> msg, trail |-> trail]

InitMessages ==
  {Message("repo", u, "p1", NoCount) : u \in Urls} \cup
  {Message("", "u1", "p1", NoCount), Message("repo", "", "p1", NoCount),
   Message("foo", "u1", "p1", NoCount)} \cup
  {Message("repo", "u1", p, NoCount) : p \in {"exclude", "nosave"}} \cup
  {Message("repo", "u1", "p1", 0)}

\* the bag of k copies of e
Copies(e, k) == [x \in {y \in {e} : k > 0} |-> k]

\* one message of any kind
InitQueues == {SetToBag({Entry(m, <<m.attemptCount>>)}) : m \in InitMessages}

\* _createQueuable changed to leave attemptCount out of the queuable
CreateQueuable_NoCount(r) ==
  [type |-> r.type, url |-> r.url, context |-> r.context, policy |-> r.policy,
   attemptCount |-> NoCount]

\* Crawler._createQueuable
CreateQueuable(r) ==
  [type |-> r.type, url |-> r.url, context |-> r.context, policy |-> r.policy,
   attemptCount |-> r.attemptCount]

\* the request the broker hands out for an entry
Deliver(e) ==
  [NewRequest(e.msg.type, e.msg.url, e.msg.context) EXCEPT
     !.policy = e.msg.policy, !.attemptCount = e.msg.attemptCount,
     !.delivery = <<e>>]

\* ---------------------------------------------------------------- the loop

\* path: branch of _completeRequest taken; requeued: result of _requeue;
\* atAck: request.promises when queues.done or queues.abandon was called;
\* filterDead: state of the pushDead call of _filter; waited: the cycle got
\* to Q.all(request.promises); panicked: the cycle before this one ended in
\* _panic
NoComp ==
  [path |-> "", requeued |-> "", atAck |-> << >>, filterDead |-> "", waited |-> FALSE,
   panicked |-> FALSE]

\* the CrawlerLoop objects when the loops ls have been run and no other exists
Started(ls) ==
  [l \in Loops |-> IF l \in ls THEN [state |-> "running", last |-> "run"]
                   ELSE [state |-> "", last |-> ""]]

Init ==
  /\ queue \in InitQueues
  /\ leases = {}
  /\ active = {"0"}
  /\ loops = <<"0">>
  /\ options = [count |-> 1, logLevel |-> "info", changes |-> {}]
  /\ timer = [l \in Loops |-> << >>]
  /\ proc = << >>
  /\ loopState = Started({"0"})
  /\ pc = [l \in Loops |-> "run"]
  /\ box = [l \in Loops |-> << >>]
  /\ comp = [l \in Loops |-> NoComp]
  /\ log = [l \in Loops |-> << >>]
  /\ ctx = [l \in Loops |-> [delay |-> 0, currentDelay |-> 0, now |-> 0]]
  /\ doneCalls = [l \in Loops |-> 0]

\* _errorHandler changed to mark every request in the box for requeue
ErrorHandler_Rewraps(b) ==
  IF b # << >>
  THEN <<MarkRequeue(b[1], "Error", "error")>>
  ELSE <<MarkSkip(Delay(NewRequest("_errorTrap", "", ""), PollingDelay), "Error", "error")>>

\* Crawler._errorHandler applied to a requestBox; request.delay() without an
\* argument waits for the polling delay
ErrorHandler(b) ==
  IF b # << >>
  THEN IF b[1].type = "_errorTrap" THEN b ELSE <<MarkRequeue(b[1], "Error", "error")>>
  ELSE <<MarkSkip(Delay(NewRequest("_errorTrap", "", ""), PollingDelay), "Error", "error")>>

\* Crawler._shouldInclude, with options.orgList = OrgList
OrgList == {"acme"}

OrgOf(url) == IF url = "u1" THEN "acme" ELSE "other"

ShouldInclude(type, url) ==
  IF OrgList = {} THEN TRUE
  ELSE IF type \in {"repo", "repos", "org"} THEN OrgOf(url) \in OrgList
  ELSE TRUE

\* Processor._getHandler finds a handler for these types
HandledTypes == {"repo", "user", "org"}

\* policy.shouldProcess(request, version) and policy.shouldSave()
ShouldProcess(r) == r.policy # "exclude"

ShouldSave(r) == r.policy # "nosave"

\* Crawler._computeDelay; now and nextRequestTime are relative to the start
\* of the cycle, nextRequestTime = 0 means it was never set
Max(a, b) == IF a >= b THEN a ELSE b

\* _computeDelay changed to look at context.delay only
ComputeDelayFn_ContextOnly(delay, now, nextRequestTime) ==
  IF delay = Stopped THEN delay ELSE Max(0, delay)

ComputeDelayFn(delay, now, nextRequestTime) ==
  IF delay = Stopped THEN delay
  ELSE LET contextGate == now + delay
           requestGate == IF nextRequestTime = 0 THEN now ELSE nextRequestTime
           next == Max(Max(contextGate, requestGate), now)
       IN Max(0, next - now)

Req(l) == box[l][1]

Logged(l, ev) == log' = [log EXCEPT ![l] = Append(@, ev)]

\* what the log of the current cycle of loop l says
Has(l, ev) == \E i \in DOMAIN log[l] : log[l][i] = ev

Count(l, ev) == Cardinality({i \in DOMAIN log[l] : log[l][i] = ev})

\* some a is logged, and every b is logged after an a
Precedes(l, a, b) ==
  \A j \in DOMAIN log[l] : log[l][j] = b => \E i \in 1..(j - 1) : log[l][i] = a

Acked(l) == Has(l, "done") \/ Has(l, "abandon")

\* the external call loop l made last
InFlight(l) == log[l][Len(log[l])]

\* the cycle of loop l has a request that came from the broker
Popped(l) == box[l] # << >> /\ Req(l).delivery # << >>

\* run changed to set the timer twice
Run_Twice(l) ==
  /\ l \in active /\ pc[l] = "run"
  /\ box' = [box EXCEPT ![l] = << >>]
  /\ IF ctx[l].delay = Stopped
     THEN /\ doneCalls' = [doneCalls EXCEPT ![l] = @ + 1]
          /\ loopState' = [loopState EXCEPT ![l].state = "stopped"]
          /\ pc' = [pc EXCEPT ![l] = "stopped"]
          /\ UNCHANGED <<ctx, timer>>
     ELSE /\ timer' = [timer EXCEPT ![l] = @ \o <<ctx[l].currentDelay, ctx[l].currentDelay>>]
          /\ ctx' = [ctx EXCEPT ![l].currentDelay = 0, ![l].now = 0]
          /\ pc' = [pc EXCEPT ![l] = "timer"]
          /\ UNCHANGED <<doneCalls, loopState>>
  /\ UNCHANGED <<queue, leases, active, loops, options, proc, comp, log>>

\* Crawler.run(context); the requestBox of the cycle that ended is gone
Run(l) ==
  /\ l \in active /\ pc[l] = "run"
  /\ box' = [box EXCEPT ![l] = << >>]
  /\ IF ctx[l].delay = Stopped
     THEN /\ doneCalls' = [doneCalls EXCEPT ![l] = @ + 1]
          /\ loopState' = [loopState EXCEPT ![l].state = "stopped"]
          /\ pc' = [pc EXCEPT ![l] = "stopped"]
          /\ UNCHANGED <<ctx, timer>>
     ELSE /\ timer' = [timer EXCEPT ![l] = Append(@, ctx[l].currentDelay)]
          /\ ctx' = [ctx EXCEPT ![l].currentDelay = 0, ![l].now = 0]
          /\ pc' = [pc EXCEPT ![l] = "timer"]
          /\ UNCHANGED <<doneCalls, loopState>>
  /\ UNCHANGED <<queue, leases, active, loops, options, proc, comp, log>>

\* _run changed to start a cycle without looking at context.delay
Wake_NoCheck(l) ==
  /\ l \in active /\ pc[l] = "timer" /\ timer[l] # << >>
  /\ timer' = [timer EXCEPT ![l] = Tail(@)]
  /\ pc' = [pc EXCEPT ![l] = "pop"]
  /\ Logged(l, "pop")
  /\ UNCHANGED <<queue, leases, active, loops, options, proc, loopState, box, comp, ctx, doneCalls>>

\* Crawler._run(context) when the timer fires; it starts processOne, whose
\* first stage calls queues.pop()
Wake(l) ==
  /\ l \in active /\ pc[l] = "timer" /\ timer[l] # << >>
  /\ timer' = [timer EXCEPT ![l] = Tail(@)]
  /\ IF ctx[l].delay = Stopped
     THEN /\ doneCalls' = [doneCalls EXCEPT ![l] = @ + 1]
          /\ loopState' = [loopState EXCEPT ![l].state = "stopped"]
          /\ pc' = [pc EXCEPT ![l] = "stopped"]
          /\ UNCHANGED log
     ELSE /\ pc' = [pc EXCEPT ![l] = "pop"]
          /\ Logged(l, "pop")
          /\ UNCHANGED <<doneCalls, loopState>>
  /\ UNCHANGED <<queue, leases, active, loops, options, proc, box, comp, ctx>>

\* Crawler._getRequestWork: queues.pop() returned a message
PopMessage(l) ==
  /\ pc[l] = "pop"
  /\ \E e \in BagToSet(queue) :
       /\ queue' = queue (-) SetToBag({e})
       /\ box' = [box EXCEPT ![l] = <<Deliver(e)>>]
  /\ pc' = [pc EXCEPT ![l] = "acquireLock"]
  /\ Logged(l, "pop.ok")
  /\ UNCHANGED <<leases, active, loops, options, timer, proc, loopState, comp, ctx, doneCalls>>

\* Crawler._getRequestWork: queues.pop() returned nothing
PopNothing(l) ==
  /\ pc[l] = "pop"
  /\ queue = EmptyBag
  /\ box' = [box EXCEPT ![l] =
       <<MarkSkip(Delay(NewRequest("_blank", "", ""), PollingDelay),
                  "Exhausted queue", "Waiting 2 seconds")>>]
  /\ pc' = [pc EXCEPT ![l] = "acquireLock"]
  /\ Logged(l, "pop.ok")
  /\ UNCHANGED <<queue, leases, active, loops, options, timer, proc, loopState, comp, ctx, doneCalls>>

\* queues.pop() rejected: the first catch of processOne runs _errorHandler
PopFails(l) ==
  /\ pc[l] = "pop"
  /\ box' = [box EXCEPT ![l] = ErrorHandler(box[l])]
  /\ pc' = [pc EXCEPT ![l] = "complete"]
  /\ Logged(l, "pop.err")
  /\ UNCHANGED <<queue, leases, active, loops, options, timer, proc, loopState, comp, ctx, doneCalls>>

\* Crawler._acquireLock up to the call of locker.lock
AcquireLock(l) ==
  /\ pc[l] = "acquireLock"
  /\ IF ~Truthy(Req(l).url)
     THEN /\ pc' = [pc EXCEPT ![l] = "filter"]
          /\ UNCHANGED log
     ELSE /\ pc' = [pc EXCEPT ![l] = "lock"]
          /\ Logged(l, "lock")
  /\ UNCHANGED <<queue, leases, active, loops, options, timer, proc, loopState, box, comp, ctx, doneCalls>>

\* locker.lock granted the lease
LockGranted(l) ==
  /\ pc[l] = "lock"
  /\ Req(l).url \notin leases
  /\ leases' = leases \cup {Req(l).url}
  /\ box' = [box EXCEPT ![l][1].lock = Req(l).url]
  /\ pc' = [pc EXCEPT ![l] = "filter"]
  /\ Logged(l, "lock.ok")
  /\ UNCHANGED <<queue, active, loops, options, timer, proc, loopState, comp, ctx, doneCalls>>

\* the Exceeded branch of _acquireLock changed to leave the request unmarked
LockExceeded_Unmarked(l) ==
  /\ pc[l] = "lock"
  /\ Req(l).url \in leases
  /\ pc' = [pc EXCEPT ![l] = "filter"]
  /\ Logged(l, "lock.exceeded")
  /\ UNCHANGED <<queue, leases, active, loops, options, timer, proc, loopState, box, comp, ctx, doneCalls>>

\* locker.lock rejected with an Exceeded error: the url is leased
LockExceeded(l) ==
  /\ pc[l] = "lock"
  /\ Req(l).url \in leases
  /\ box' = [box EXCEPT ![l][1] = MarkRequeue(@, "Requeued", "Could not lock")]
  /\ pc' = [pc EXCEPT ![l] = "filter"]
  /\ Logged(l, "lock.exceeded")
  /\ UNCHANGED <<queue, leases, active, loops, options, timer, proc, loopState, comp, ctx, doneCalls>>

\* locker.lock threw or rejected with any other error
LockFails(l) ==
  /\ pc[l] = "lock"
  /\ box' = [box EXCEPT ![l][1] = MarkRequeue(@, "Error", "error")]
  /\ pc' = [pc EXCEPT ![l] = "filter"]
  /\ Logged(l, "lock.err")
  /\ UNCHANGED <<queue, leases, active, loops, options, timer, proc, loopState, comp, ctx, doneCalls>>

\* _filter changed to dead-letter the requests it filters out
Filter_DeadLettersFiltered(l) ==
  /\ pc[l] = "filter"
  /\ IF ~Truthy(Req(l).url) \/ ~Truthy(Req(l).type) \/ ~ShouldInclude(Req(l).type, Req(l).url)
     THEN /\ comp' = [comp EXCEPT ![l].filterDead = "pending"]
          /\ Logged(l, "pushDead")
          /\ box' = [box EXCEPT ![l][1] =
                 IF ~Truthy(@.url) \/ ~Truthy(@.type) THEN MarkSkip(@, "Error", "malformed")
                 ELSE MarkSkip(@, "Filtered", "")]
     ELSE UNCHANGED <<box, comp, log>>
  /\ pc' = [pc EXCEPT ![l] = "fetch"]
  /\ UNCHANGED <<queue, leases, active, loops, options, timer, proc, loopState, ctx, doneCalls>>

\* Crawler._filter
Filter(l) ==
  /\ pc[l] = "filter"
  /\ IF ~Truthy(Req(l).url) \/ ~Truthy(Req(l).type)
     THEN /\ comp' = [comp EXCEPT ![l].filterDead = "pending"]
          /\ Logged(l, "pushDead")
          /\ box' = [box EXCEPT ![l][1] = MarkSkip(@, "Error", "malformed")]
     ELSE /\ box' = [box EXCEPT ![l][1] =
                 IF ShouldInclude(@.type, @.url) THEN @ ELSE MarkSkip(@, "Filtered", "")]
          /\ UNCHANGED <<comp, log>>
  /\ pc' = [pc EXCEPT ![l] = "fetch"]
  /\ UNCHANGED <<queue, leases, active, loops, options, timer, proc, loopState, ctx, doneCalls>>

\* _fetch changed to call the fetcher whatever the request is marked
Fetch_Unguarded(l) ==
  /\ pc[l] = "fetch"
  /\ pc' = [pc EXCEPT ![l] = "fetching"]
  /\ Logged(l, "fetch")
  /\ UNCHANGED <<queue, leases, active, loops, options, timer, proc, loopState, box, comp, ctx, doneCalls>>

\* Crawler._fetch up to the call of fetcher.fetch
Fetch(l) ==
  /\ pc[l] = "fetch"
  /\ IF ShouldSkip(Req(l))
     THEN /\ pc' = [pc EXCEPT ![l] = "convert"]
          /\ UNCHANGED log
     ELSE /\ pc' = [pc EXCEPT ![l] = "fetching"]
          /\ Logged(l, "fetch")
  /\ UNCHANGED <<queue, leases, active, loops, options, timer, proc, loopState, box, comp, ctx, doneCalls>>

\* fetcher.fetch returned a document and its response
FetchDocument(l) ==
  /\ pc[l] = "fetching"
  /\ box' = [box EXCEPT ![l][1].document = "fetched"]
  /\ pc' = [pc EXCEPT ![l] = "convert"]
  /\ Logged(l, "fetch.ok")
  /\ UNCHANGED <<queue, leases, active, loops, options, timer, proc, loopState, comp, ctx, doneCalls>>

\* fetcher.fetch marked the request skipped (unmodified, empty repo)
FetchSkips(l) ==
  /\ pc[l] = "fetching"
  /\ box' = [box EXCEPT ![l][1] = MarkSkip(@, "Unmodified", "")]
  /\ pc' = [pc EXCEPT ![l] = "convert"]
  /\ Logged(l, "fetch.ok")
  /\ UNCHANGED <<queue, leases, active, loops, options, timer, proc, loopState, comp, ctx, doneCalls>>

\* fetcher.fetch threw: the first catch of processOne runs _errorHandler
FetchFails(l) ==
  /\ pc[l] = "fetching"
  /\ box' = [box EXCEPT ![l] = ErrorHandler(@)]
  /\ pc' = [pc EXCEPT ![l] = "complete"]
  /\ Logged(l, "fetch.err")
  /\ UNCHANGED <<queue, leases, active, loops, options, timer, proc, loopState, comp, ctx, doneCalls>>

\* Crawler._convertToDocument
ConvertToDocument(l) ==
  /\ pc[l] = "convert"
  /\ box' = [box EXCEPT ![l][1].document =
               IF ShouldSkip(Req(l)) THEN @ ELSE "converted"]
  /\ pc' = [pc EXCEPT ![l] = "process"]
  /\ UNCHANGED <<queue, leases, active, loops, options, timer, proc, loopState, comp, log, ctx, doneCalls>>

\* Processor.process changed to return what the handler returns unstamped
ProcessDocument_NoStamp(l) ==
  /\ pc[l] = "process"
  /\ IF ShouldSkip(Req(l)) THEN UNCHANGED box
     ELSE IF Req(l).type \notin HandledTypes
       THEN box' = [box EXCEPT ![l][1] = MarkSkip(@, "Skip", "No handler")]
     ELSE IF ~ShouldProcess(Req(l))
       THEN box' = [box EXCEPT ![l][1] = MarkSkip(@, "Excluded", "excluded")]
     ELSE \E n \in 0..MaxPromises :
            box' = [box EXCEPT ![l][1] = [Track(@, n) EXCEPT !.document = "processed"]]
  /\ pc' = [pc EXCEPT ![l] = "store"]
  /\ UNCHANGED <<queue, leases, active, loops, options, timer, proc, loopState, comp, log, ctx, doneCalls>>

\* Crawler._processDocument with Processor.process; a handler tracks n enqueues
\* on the request and the version is stamped on the document it returns
ProcessDocument(l) ==
  /\ pc[l] = "process"
  /\ IF ShouldSkip(Req(l)) THEN UNCHANGED box
     ELSE IF Req(l).type \notin HandledTypes
       THEN box' = [box EXCEPT ![l][1] = MarkSkip(@, "Skip", "No handler")]
     ELSE IF ~ShouldProcess(Req(l))
       THEN box' = [box EXCEPT ![l][1] = MarkSkip(@, "Excluded", "excluded")]
     ELSE \E n \in 0..MaxPromises :
            box' = [box EXCEPT ![l][1] =
              [Track(@, n) EXCEPT !.document = "processed", !.version = ProcessorVersion]]
  /\ pc' = [pc EXCEPT ![l] = "store"]
  /\ UNCHANGED <<queue, leases, active, loops, options, timer, proc, loopState, comp, log, ctx, doneCalls>>

\* Processor.process: the handler throws after tracking n enqueues; the first
\* catch of processOne runs _errorHandler
ProcessFails(l) ==
  /\ pc[l] = "process"
  /\ ~ShouldSkip(Req(l))
  /\ Req(l).type \in HandledTypes /\ ShouldProcess(Req(l))
  /\ \E n \in 0..MaxPromises :
       box' = [box EXCEPT ![l] = ErrorHandler(<<Track(@[1], n)>>)]
  /\ pc' = [pc EXCEPT ![l] = "complete"]
  /\ UNCHANGED <<queue, leases, active, loops, options, timer, proc, loopState, comp, log, ctx, doneCalls>>

\* _storeDocument changed to look at shouldSave only
StoreDocument_Unguarded(l) ==
  /\ pc[l] = "store"
  /\ IF ~ShouldSave(Req(l))
     THEN /\ pc' = [pc EXCEPT ![l] = "complete"]
          /\ UNCHANGED log
     ELSE /\ pc' = [pc EXCEPT ![l] = "storing"]
          /\ Logged(l, "upsert")
  /\ UNCHANGED <<queue, leases, active, loops, options, timer, proc, loopState, box, comp, ctx, doneCalls>>

\* Crawler._storeDocument up to the call of store.upsert
StoreDocument(l) ==
  /\ pc[l] = "store"
  /\ IF ShouldSkip(Req(l)) \/ ~ShouldSave(Req(l))
     THEN /\ pc' = [pc EXCEPT ![l] = "complete"]
          /\ UNCHANGED log
     ELSE /\ pc' = [pc EXCEPT ![l] = "storing"]
          /\ Logged(l, "upsert")
  /\ UNCHANGED <<queue, leases, active, loops, options, timer, proc, loopState, box, comp, ctx, doneCalls>>

\* store.upsert returned
UpsertDone(l) ==
  /\ pc[l] = "storing"
  /\ pc' = [pc EXCEPT ![l] = "complete"]
  /\ Logged(l, "upsert.ok")
  /\ UNCHANGED <<queue, leases, active, loops, options, timer, proc, loopState, box, comp, ctx, doneCalls>>

\* processOne changed to swallow the error of store.upsert
UpsertFails_Swallowed(l) ==
  /\ pc[l] = "storing"
  /\ pc' = [pc EXCEPT ![l] = "complete"]
  /\ Logged(l, "upsert.err")
  /\ UNCHANGED <<queue, leases, active, loops, options, timer, proc, loopState, box, comp, ctx, doneCalls>>

\* store.upsert rejected: the first catch of processOne runs _errorHandler
UpsertFails(l) ==
  /\ pc[l] = "storing"
  /\ box' = [box EXCEPT ![l] = ErrorHandler(@)]
  /\ pc' = [pc EXCEPT ![l] = "complete"]
  /\ Logged(l, "upsert.err")
  /\ UNCHANGED <<queue, leases, active, loops, options, timer, proc, loopState, comp, ctx, doneCalls>>

\* _requeue changed to dead-letter one attempt later
Requeue_LateLimit(l) ==
  LET count == (IF Req(l).attemptCount = NoCount THEN 0 ELSE Req(l).attemptCount) + 1 IN
  /\ box' = [box EXCEPT ![l][1].attemptCount = count]
  /\ Logged(l, IF count > MaxAttempts + 1 THEN "pushDead" ELSE "repush")
  /\ comp' = [comp EXCEPT ![l].path = "requeue"]
  /\ pc' = [pc EXCEPT ![l] = "requeuing"]

\* Crawler._requeue up to the call of queues.repush or queues.pushDead
Requeue(l) ==
  LET count == (IF Req(l).attemptCount = NoCount THEN 0 ELSE Req(l).attemptCount) + 1 IN
  /\ box' = [box EXCEPT ![l][1].attemptCount = count]
  /\ Logged(l, IF count > MaxAttempts THEN "pushDead" ELSE "repush")
  /\ comp' = [comp EXCEPT ![l].path = "requeue"]
  /\ pc' = [pc EXCEPT ![l] = "requeuing"]

\* _completeRequest changed to delete from the queue whatever _requeue did
Ack_AlwaysDone(l, r, c, lg) ==
  /\ pc' = [pc EXCEPT ![l] = "acking"]
  /\ log' = [log EXCEPT ![l] = Append(lg, "done")]
  /\ comp' = [comp EXCEPT ![l] = [c EXCEPT !.atAck = r.promises]]

\* Crawler._deleteFromQueue / _abandonInQueue up to the call of queues.done
\* or queues.abandon
Ack(l, r, c, lg) ==
  IF c.path = "requeue" /\ c.requeued = "err"
  THEN /\ pc' = [pc EXCEPT ![l] = "abandoning"]
       /\ log' = [log EXCEPT ![l] = Append(lg, "abandon")]
       /\ comp' = [comp EXCEPT ![l] = [c EXCEPT !.atAck = r.promises]]
  ELSE /\ pc' = [pc EXCEPT ![l] = "acking"]
       /\ log' = [log EXCEPT ![l] = Append(lg, "done")]
       /\ comp' = [comp EXCEPT ![l] = [c EXCEPT !.atAck = r.promises]]

\* _releaseLock changed to never call locker.unlock
ReleaseLock_Skipped(l, c, lg) == Ack(l, Req(l), c, lg)

\* Crawler._releaseLock up to the call of locker.unlock; without a lock the
\* chain goes on to the queue
ReleaseLock(l, c, lg) ==
  IF Truthy(Req(l).lock)
  THEN /\ pc' = [pc EXCEPT ![l] = "unlocking"]
       /\ log' = [log EXCEPT ![l] = Append(lg, "unlock")]
       /\ comp' = [comp EXCEPT ![l] = c]
  ELSE Ack(l, Req(l), c, lg)

\* _completeRequest changed to requeue every request that has a url
CompleteRequest_AlwaysRequeue(l) ==
  /\ pc[l] = "complete"
  /\ IF Truthy(Req(l).url)
     THEN Requeue(l)
     ELSE /\ comp' = [comp EXCEPT ![l].path = "happy", ![l].waited = TRUE]
          /\ pc' = [pc EXCEPT ![l] = "promises"]
          /\ UNCHANGED <<box, log>>
  /\ UNCHANGED <<queue, leases, active, loops, options, timer, proc, loopState, ctx, doneCalls>>

\* Crawler._completeRequest(request)
CompleteRequest(l) ==
  /\ pc[l] = "complete"
  /\ IF ShouldRequeue(Req(l)) /\ Truthy(Req(l).url)
     THEN Requeue(l)
     ELSE /\ comp' = [comp EXCEPT ![l].path = "happy", ![l].waited = TRUE]
          /\ pc' = [pc EXCEPT ![l] = "promises"]
          /\ UNCHANGED <<box, log>>
  /\ UNCHANGED <<queue, leases, active, loops, options, timer, proc, loopState, ctx, doneCalls>>

\* Q.all(request.promises) resolved: release the lock
PromisesResolved(l) ==
  /\ pc[l] = "promises"
  /\ \A i \in DOMAIN Req(l).promises : Req(l).promises[i] = "resolved"
  /\ ReleaseLock(l, comp[l], log[l])
  /\ UNCHANGED <<queue, leases, active, loops, options, timer, proc, loopState, box, ctx, doneCalls>>

\* _completeRequest changed to go on to the release when Q.all rejects
PromisesRejected_Ignored(l) ==
  /\ pc[l] = "promises"
  /\ \E i \in DOMAIN Req(l).promises : Req(l).promises[i] = "rejected"
  /\ ReleaseLock(l, comp[l], log[l])
  /\ UNCHANGED <<queue, leases, active, loops, options, timer, proc, loopState, box, ctx, doneCalls>>

\* Q.all(request.promises) rejected: _completeRequest(request, true)
PromisesRejected(l) ==
  /\ pc[l] = "promises"
  /\ \E i \in DOMAIN Req(l).promises : Req(l).promises[i] = "rejected"
  /\ Requeue(l)
  /\ UNCHANGED <<queue, leases, active, loops, options, timer, proc, loopState, ctx, doneCalls>>

\* _requeue changed to repush the request with its lock and document
RequeueDone_WholeRequest(l) ==
  /\ pc[l] = "requeuing"
  /\ IF InFlight(l) = "pushDead"
     THEN /\ UNCHANGED queue
          /\ ReleaseLock(l, [comp[l] EXCEPT !.requeued = "ok"], Append(log[l], "pushDead.ok"))
     ELSE /\ queue' = queue (+) SetToBag({Entry(
                [type |-> Req(l).type, url |-> Req(l).url, context |-> Req(l).context,
                 policy |-> Req(l).policy, attemptCount |-> Req(l).attemptCount,
                 lock |-> Req(l).lock, document |-> Req(l).document],
                IF Req(l).delivery = << >> THEN << >>
                ELSE Append(Req(l).delivery[1].trail, Req(l).attemptCount))})
          /\ ReleaseLock(l, [comp[l] EXCEPT !.requeued = "ok"], Append(log[l], "repush.ok"))
  /\ UNCHANGED <<leases, active, loops, options, timer, proc, loopState, box, ctx, doneCalls>>

\* queues.repush or queues.pushDead of _requeue resolved; finally release the lock
RequeueDone(l) ==
  /\ pc[l] = "requeuing"
  /\ IF InFlight(l) = "pushDead"
     THEN /\ UNCHANGED queue
          /\ ReleaseLock(l, [comp[l] EXCEPT !.requeued = "ok"], Append(log[l], "pushDead.ok"))
     ELSE /\ queue' = queue (+) SetToBag({Entry(CreateQueuable(Req(l)),
                         IF Req(l).delivery = << >> THEN << >>
                         ELSE Append(Req(l).delivery[1].trail, Req(l).attemptCount))})
          /\ ReleaseLock(l, [comp[l] EXCEPT !.requeued = "ok"], Append(log[l], "repush.ok"))
  /\ UNCHANGED <<leases, active, loops, options, timer, proc, loopState, box, ctx, doneCalls>>

\* _completeRequest changed to abandon a failed requeue without _releaseLock
RequeueFails_NoRelease(l) ==
  /\ pc[l] = "requeuing"
  /\ Ack(l, Req(l), [comp[l] EXCEPT !.requeued = "err"],
         Append(log[l], IF InFlight(l) = "pushDead"
                        THEN "pushDead.err" ELSE "repush.err"))
  /\ UNCHANGED <<queue, leases, active, loops, options, timer, proc, loopState, box, ctx, doneCalls>>

\* queues.repush or queues.pushDead of _requeue rejected; finally release the lock
RequeueFails(l) ==
  /\ pc[l] = "requeuing"
  /\ ReleaseLock(l, [comp[l] EXCEPT !.requeued = "err"],
                 Append(log[l], IF InFlight(l) = "pushDead"
                                THEN "pushDead.err" ELSE "repush.err"))
  /\ UNCHANGED <<queue, leases, active, loops, options, timer, proc, loopState, box, ctx, doneCalls>>

\* locker.unlock resolved
UnlockDone(l) ==
  /\ pc[l] = "unlocking"
  /\ leases' = leases \ {Req(l).lock}
  /\ box' = [box EXCEPT ![l][1].lock = ""]
  /\ Ack(l, Req(l), comp[l], Append(log[l], "unlock.ok"))
  /\ UNCHANGED <<queue, active, loops, options, timer, proc, loopState, ctx, doneCalls>>

\* the rejection handler of _releaseLock changed to leave request.lock set
UnlockFails_KeepsLock(l) ==
  /\ pc[l] = "unlocking"
  /\ Ack(l, Req(l), comp[l], Append(log[l], "unlock.err"))
  /\ UNCHANGED <<queue, leases, active, loops, options, timer, proc, loopState, box, ctx, doneCalls>>

\* locker.unlock threw or rejected: the lease stays until it expires
UnlockFails(l) ==
  /\ pc[l] = "unlocking"
  /\ box' = [box EXCEPT ![l][1].lock = ""]
  /\ Ack(l, Req(l), comp[l], Append(log[l], "unlock.err"))
  /\ UNCHANGED <<queue, leases, active, loops, options, timer, proc, loopState, ctx, doneCalls>>

\* queues.done resolved
DoneDone(l) ==
  /\ pc[l] = "acking"
  /\ pc' = [pc EXCEPT ![l] = "logOutcome"]
  /\ Logged(l, "done.ok")
  /\ UNCHANGED <<queue, leases, active, loops, options, timer, proc, loopState, box, comp, ctx, doneCalls>>

\* queues.done rejected: the second catch of processOne runs _errorHandler;
\* the delivery stays with the broker
DoneFails(l) ==
  /\ pc[l] = "acking"
  /\ box' = [box EXCEPT ![l] = ErrorHandler(@)]
  /\ pc' = [pc EXCEPT ![l] = "logOutcome"]
  /\ Logged(l, "done.err")
  /\ UNCHANGED <<queue, leases, active, loops, options, timer, proc, loopState, comp, ctx, doneCalls>>

\* _completeRequest changed to delete from the queue after the abandon too
AbandonDone_ThenDelete(l) ==
  /\ pc[l] = "abandoning"
  /\ queue' = queue (+) SetToBag({Req(l).delivery[1]})
  /\ pc' = [pc EXCEPT ![l] = "acking"]
  /\ log' = [log EXCEPT ![l] = log[l] \o <<"abandon.ok", "done">>]
  /\ UNCHANGED <<leases, active, loops, options, timer, proc, loopState, box, comp, ctx, doneCalls>>

\* queues.abandon resolved: the broker delivers the original entry again
AbandonDone(l) ==
  /\ pc[l] = "abandoning"
  /\ queue' = queue (+) SetToBag({Req(l).delivery[1]})
  /\ pc' = [pc EXCEPT ![l] = "logOutcome"]
  /\ Logged(l, "abandon.ok")
  /\ UNCHANGED <<leases, active, loops, options, timer, proc, loopState, box, comp, ctx, doneCalls>>

\* queues.abandon rejected: the second catch of processOne runs _errorHandler
AbandonFails(l) ==
  /\ pc[l] = "abandoning"
  /\ box' = [box EXCEPT ![l] = ErrorHandler(@)]
  /\ pc' = [pc EXCEPT ![l] = "logOutcome"]
  /\ Logged(l, "abandon.err")
  /\ UNCHANGED <<queue, leases, active, loops, options, timer, proc, loopState, comp, ctx, doneCalls>>

\* Crawler._logOutcome
LogOutcome(l) ==
  /\ pc[l] = "logOutcome"
  /\ pc' = [pc EXCEPT ![l] = "computeDelay"]
  /\ comp' = [comp EXCEPT ![l] = NoComp]
  /\ log' = [log EXCEPT ![l] = << >>]
  /\ UNCHANGED <<queue, leases, active, loops, options, timer, proc, loopState, box, ctx, doneCalls>>

\* Crawler._computeDelay(context, request), elapsed ms after the cycle began
ComputeDelay(l) ==
  /\ pc[l] = "computeDelay"
  /\ IF ctx[l].delay = Stopped
     THEN UNCHANGED ctx
     ELSE \E elapsed \in ElapsedChoices :
            ctx' = [ctx EXCEPT
                      ![l].now = elapsed,
                      ![l].currentDelay =
                        ComputeDelayFn(ctx[l].delay, elapsed, Req(l).nextRequestTime)]
  /\ pc' = [pc EXCEPT ![l] = "run"]
  /\ UNCHANGED <<queue, leases, active, loops, options, timer, proc, loopState, box, comp, log, doneCalls>>

\* _logOutcome threw: the third catch of processOne runs _errorHandler and
\* processOne resolves with the request it returns
LogOutcomeFails(l) ==
  /\ pc[l] = "logOutcome"
  /\ box' = [box EXCEPT ![l] = ErrorHandler(@)]
  /\ pc' = [pc EXCEPT ![l] = "computeDelay"]
  /\ comp' = [comp EXCEPT ![l] = NoComp]
  /\ log' = [log EXCEPT ![l] = << >>]
  /\ UNCHANGED <<queue, leases, active, loops, options, timer, proc, loopState, ctx, doneCalls>>

\* _run changed to end the loop when processOne rejects
Panic_Terminates(l) ==
  /\ pc[l] = "logOutcome"
  /\ pc' = [pc EXCEPT ![l] = "stopped"]
  /\ comp' = [comp EXCEPT ![l] = [NoComp EXCEPT !.panicked = TRUE]]
  /\ log' = [log EXCEPT ![l] = << >>]
  /\ UNCHANGED <<queue, leases, active, loops, options, timer, proc, loopState, box, ctx, doneCalls>>

\* processOne rejected (its last handler threw as well): _run calls _panic
\* in place of _computeDelay, and the finally calls run(context)
Panic(l) ==
  /\ pc[l] = "logOutcome"
  /\ pc' = [pc EXCEPT ![l] = "run"]
  /\ comp' = [comp EXCEPT ![l] = [NoComp EXCEPT !.panicked = TRUE]]
  /\ log' = [log EXCEPT ![l] = << >>]
  /\ UNCHANGED <<queue, leases, active, loops, options, timer, proc, loopState, box, ctx, doneCalls>>

\* _computeDelay threw: context.currentDelay is not set, and the finally of
\* _run calls run(context)
ComputeDelayFails(l) ==
  /\ pc[l] = "computeDelay"
  /\ pc' = [pc EXCEPT ![l] = "run"]
  /\ UNCHANGED <<queue, leases, active, loops, options, timer, proc, loopState, box, comp, log, ctx, doneCalls>>

\* ------------------------------------------------------------ environment

Settling(l) ==
  pc[l] \in {"store", "storing", "complete", "promises"}

\* an enqueue tracked on the request of loop l resolves
PromiseResolves(l) ==
  /\ Settling(l)
  /\ \E i \in DOMAIN Req(l).promises :
       /\ Req(l).promises[i] = "pending"
       /\ box' = [box EXCEPT ![l][1].promises[i] = "resolved"]
  /\ UNCHANGED <<queue, leases, active, loops, options, timer, proc, loopState, pc, comp, log, ctx, doneCalls>>

\* an enqueue tracked on the request of loop l rejects
PromiseRejects(l) ==
  /\ Settling(l)
  /\ \E i \in DOMAIN Req(l).promises :
       /\ Req(l).promises[i] = "pending"
       /\ box' = [box EXCEPT ![l][1].promises[i] = "rejected"]
  /\ UNCHANGED <<queue, leases, active, loops, options, timer, proc, loopState, pc, comp, log, ctx, doneCalls>>

\* the pushDead call of _filter, which nothing waits for, resolves
FilterDeadArrives(l) ==
  /\ comp[l].filterDead = "pending"
  /\ comp' = [comp EXCEPT ![l].filterDead = "ok"]
  /\ UNCHANGED <<queue, leases, active, loops, options, timer, proc, loopState, pc, box, log, ctx, doneCalls>>

\* the pushDead call of _filter rejects
FilterDeadFails(l) ==
  /\ comp[l].filterDead = "pending"
  /\ comp' = [comp EXCEPT ![l].filterDead = "err"]
  /\ UNCHANGED <<queue, leases, active, loops, options, timer, proc, loopState, pc, box, log, ctx, doneCalls>>

\* a lease nobody holds any more runs out of its TTL
LeaseExpires ==
  /\ \E u \in leases :
       /\ ~(\E l \in Loops : box[l] # << >> /\ Req(l).lock = u)
       /\ leases' = leases \ {u}
  /\ UNCHANGED <<queue, active, loops, options, timer, proc, loopState, pc, box, comp, log, ctx, doneCalls>>

\* CrawlerLoop.stop(): tell the loop to stop
Stop(l) ==
  /\ l \in active
  /\ loopState[l].state \notin {"stopped", "stopping"}
  /\ loopState' = [loopState EXCEPT ![l].state = "stopping", ![l].last = "stop"]
  /\ ctx' = [ctx EXCEPT ![l].delay = Stopped]
  /\ UNCHANGED <<queue, leases, active, loops, options, timer, proc, pc, box, comp, log, doneCalls>>

LoopStep(l) ==
  \/ Run(l) \/ Wake(l)
  \/ PopMessage(l) \/ PopNothing(l) \/ PopFails(l)
  \/ AcquireLock(l) \/ LockGranted(l) \/ LockExceeded(l) \/ LockFails(l)
  \/ Filter(l)
  \/ Fetch(l) \/ FetchDocument(l) \/ FetchSkips(l) \/ FetchFails(l)
  \/ ConvertToDocument(l)
  \/ ProcessDocument(l) \/ ProcessFails(l)
  \/ StoreDocument(l) \/ UpsertDone(l) \/ UpsertFails(l)
  \/ CompleteRequest(l) \/ PromisesResolved(l) \/ PromisesRejected(l)
  \/ RequeueDone(l) \/ RequeueFails(l)
  \/ UnlockDone(l) \/ UnlockFails(l)
  \/ DoneDone(l) \/ DoneFails(l) \/ AbandonDone(l) \/ AbandonFails(l)
  \/ LogOutcome(l) \/ LogOutcomeFails(l) \/ Panic(l)
  \/ ComputeDelay(l) \/ ComputeDelayFails(l)

Next ==
  \/ \E l \in Loops : LoopStep(l)
  \/ \E l \in Loops : PromiseResolves(l)
  \/ \E l \in Loops : PromiseRejects(l)
  \/ \E l \in Loops : Stop(l)
  \/ \E l \in Loops : FilterDeadArrives(l)
  \/ \E l \in Loops : FilterDeadFails(l)
  \/ LeaseExpires

Spec == Init /\ [][Next]_vars

\* every timer fires, every external call returns and every tracked enqueue
\* settles
FairSpec ==
  /\ Spec
  /\ \A l \in Loops : WF_vars(LoopStep(l))
  /\ \A l \in Loops : WF_vars(PromiseResolves(l) \/ PromiseRejects(l))

\* one loop whose context asks for a delay between its cycles
DelayChoices == {0, PollingDelay \div 2, PollingDelay + 1000}

InitDelay ==
  /\ queue \in InitQueues
  /\ leases = {}
  /\ active = {"0"}
  /\ loops = <<"0">>
  /\ options = [count |-> 1, logLevel |-> "info", changes |-> {}]
  /\ timer = [l \in Loops |-> << >>]
  /\ proc = << >>
  /\ loopState = Started({"0"})
  /\ pc = [l \in Loops |-> "run"]
  /\ box = [l \in Loops |-> << >>]
  /\ comp = [l \in Loops |-> NoComp]
  /\ log = [l \in Loops |-> << >>]
  /\ \E d \in DelayChoices :
       ctx = [l \in Loops |-> [delay |-> IF l = "0" THEN d ELSE 0, currentDelay |-> 0, now |-> 0]]
  /\ doneCalls = [l \in Loops |-> 0]

SpecDelay == InitDelay /\ [][Next]_vars

\* two loops on one broker and one lock service; of the external calls only
\* those to the lock service and the fetcher fail
InitTwo ==
  /\ queue \in {Copies(Entry(Fresh, <<NoCount>>), MaxQueue)}
  /\ leases = {}
  /\ active = Loops
  /\ loops = <<"0", "1">>
  /\ options = [count |-> Cardinality(Loops), logLevel |-> "info", changes |-> {}]
  /\ timer = [l \in Loops |-> << >>]
  /\ proc = << >>
  /\ loopState = Started(Loops)
  /\ pc = [l \in Loops |-> "run"]
  /\ box = [l \in Loops |-> << >>]
  /\ comp = [l \in Loops |-> NoComp]
  /\ log = [l \in Loops |-> << >>]
  /\ ctx = [l \in Loops |-> [delay |-> 0, currentDelay |-> 0, now |-> 0]]
  /\ doneCalls = [l \in Loops |-> 0]

LoopStepTwo(l) ==
  \/ Run(l) \/ Wake(l)
  \/ PopMessage(l) \/ PopNothing(l)
  \/ AcquireLock(l) \/ LockGranted(l) \/ LockExceeded(l) \/ LockFails(l)
  \/ Filter(l)
  \/ Fetch(l) \/ FetchDocument(l) \/ FetchFails(l)
  \/ ConvertToDocument(l)
  \/ ProcessDocument(l)
  \/ StoreDocument(l) \/ UpsertDone(l)
  \/ CompleteRequest(l) \/ PromisesResolved(l)
  \/ RequeueDone(l)
  \/ UnlockDone(l) \/ UnlockFails(l)
  \/ DoneDone(l)
  \/ LogOutcome(l) \/ ComputeDelay(l)

NextTwo ==
  \/ \E l \in Loops : LoopStepTwo(l)
  \/ \E l \in Loops : PromiseResolves(l)
  \/ LeaseExpires

SpecTwo == InitTwo /\ [][NextTwo]_vars

\* ------------------------------------------------------------------ claims

\* C1: queues.done or queues.abandon is called only after the lock-release
\* step of the cycle has finished: a lock that was granted has been handed to
\* locker.unlock, that call has returned, and request.lock is empty
C1_AckAfterRelease ==
  \A l \in Loops :
    Acked(l) =>
      /\ Req(l).lock = ""
      /\ Has(l, "lock.ok") => Has(l, "unlock")
      /\ Has(l, "unlock") => Has(l, "unlock.ok") \/ Has(l, "unlock.err")
      /\ Precedes(l, "unlock", "done") \/ ~Has(l, "unlock")
      /\ Precedes(l, "unlock", "abandon") \/ ~Has(l, "unlock")

C1_Witness ==
  \E l \in Loops :
    /\ pc[l] = "acking" /\ comp[l].path = "requeue"
    /\ Has(l, "lock.ok") /\ Has(l, "unlock.ok")

\* the stages 4 to 7 of the pipeline, for a request that is not skipped
InStage(l) ==
  /\ box[l] # << >>
  /\ pc[l] \in {"fetch", "fetching", "convert", "process", "store", "storing"}
  /\ ~ShouldSkip(Req(l))

\* C2: two loops are never in the stages fetch to store with requests that are
\* not skipped for the same url, and a loop whose lock call failed runs none of
\* those stages for its request
C2_OneLoopPerUrl ==
  /\ \A l1, l2 \in Loops :
       l1 # l2 /\ InStage(l1) /\ InStage(l2) => Req(l1).url # Req(l2).url
  /\ \A l \in Loops :
       Has(l, "lock.exceeded") \/ Has(l, "lock.err") =>
         /\ ~InStage(l)
         /\ ~Has(l, "fetch") /\ ~Has(l, "upsert")
         /\ Req(l).document = "" /\ Req(l).version = 0

C2_Witness ==
  \E l1, l2 \in Loops :
    /\ InStage(l1) /\ pc[l1] = "storing"
    /\ pc[l2] = "store" /\ Has(l2, "lock.exceeded")
    /\ Req(l1).url = Req(l2).url

\* C3 as stated: at the end of the cycle of a popped request exactly one call
\* among queues.done, queues.abandon and queues.pushDead was made
C3_Original ==
  \A l \in Loops :
    pc[l] = "logOutcome" /\ Popped(l) =>
      Count(l, "done") + Count(l, "abandon") + Count(l, "pushDead") = 1

\* C3 amended: in the cycle of a popped request queues.done and
\* queues.abandon are called at most once together, and exactly once when the
\* cycle ends; a queues.pushDead call comes in addition to that call
C3_OneAckPerPop ==
  \A l \in Loops :
    /\ Count(l, "done") + Count(l, "abandon") <= 1
    /\ pc[l] = "logOutcome" /\ Popped(l) =>
         Count(l, "done") + Count(l, "abandon") = 1

C3_Witness ==
  \E l \in Loops :
    /\ pc[l] = "logOutcome" /\ Popped(l)
    /\ Has(l, "pushDead.ok") /\ Has(l, "done.ok")

CountOk(n, max) == n = NoCount \/ n \in 0..max

\* C4 as stated: the attemptCount of every request, of every entry of the live
\* queue and of every message on its way to a queue is at most 5
C4_Original ==
  /\ \A e \in BagToSet(queue) : CountOk(e.msg.attemptCount, MaxAttempts)
  /\ \A l \in Loops : box[l] # << >> => CountOk(Req(l).attemptCount, MaxAttempts)

\* C4 amended: the attemptCount of a request is at most 6; every entry of the
\* live queue has at most 5 and every repushed message has between 1 and 5;
\* a request has 6 only once _requeue has sent it to the dead-letter queue
C4_AttemptCountBounds ==
  /\ \A e \in BagToSet(queue) : CountOk(e.msg.attemptCount, MaxAttempts)
  /\ \A l \in Loops : box[l] # << >> =>
       /\ CountOk(Req(l).attemptCount, MaxAttempts + 1)
       /\ pc[l] = "requeuing" /\ InFlight(l) = "repush" =>
            Req(l).attemptCount \in 1..MaxAttempts
       /\ Req(l).attemptCount = MaxAttempts + 1 /\ pc[l] \notin {"computeDelay", "run"} =>
            comp[l].path = "requeue" /\ Has(l, "pushDead") /\ ~Has(l, "repush")

C4_Witness ==
  \E l \in Loops :
    /\ pc[l] = "requeuing" /\ InFlight(l) = "pushDead"
    /\ Req(l).attemptCount = MaxAttempts + 1

\* the entry descends from a message without attemptCount through k repushes
\* that carried 1, 2, .. k
FreshTrail(e) ==
  /\ e.trail[1] = NoCount
  /\ Len(e.trail) - 1 <= MaxAttempts
  /\ \A i \in 2..Len(e.trail) : e.trail[i] = i - 1
  /\ e.msg.attemptCount = IF Len(e.trail) = 1 THEN NoCount ELSE Len(e.trail) - 1

\* the calls of queues.pushDead the cycle of loop l made from _filter
FilterDeadCalls(l) == IF comp[l].filterDead = "" THEN 0 ELSE 1

\* C5: a message that starts without attemptCount and is requeued on every
\* delivery is repushed with attemptCount 1, 2, 3, 4, 5 and no more than five
\* times; the delivery that follows the fifth repush calls queues.pushDead
\* from _requeue, does not repush, and is acked with queues.done once
\* pushDead has returned
C5_FiveRepushesThenDead ==
  /\ \A e \in BagToSet(queue) : e.trail[1] = NoCount => FreshTrail(e)
  /\ \A l \in Loops :
       (Popped(l) /\ Req(l).delivery[1].trail[1] = NoCount /\ comp[l].path = "requeue") =>
         LET k == Len(Req(l).delivery[1].trail) - 1 IN
         /\ FreshTrail(Req(l).delivery[1])
         /\ Req(l).attemptCount = k + 1
         /\ k < MaxAttempts =>
              /\ Count(l, "repush") = 1
              /\ Count(l, "pushDead") = FilterDeadCalls(l)
         /\ k = MaxAttempts =>
              /\ ~Has(l, "repush")
              /\ Count(l, "pushDead") = 1 + FilterDeadCalls(l)
              /\ Has(l, "pushDead.ok") => ~Has(l, "abandon")
              /\ (Has(l, "pushDead.ok") /\ pc[l] = "logOutcome") => Has(l, "done")

C5_Witness ==
  \E l \in Loops :
    /\ pc[l] = "logOutcome" /\ Popped(l)
    /\ Req(l).delivery[1].trail = <<NoCount, 1, 2, 3, 4, 5>>
    /\ Has(l, "fetch.err") /\ Has(l, "pushDead.ok") /\ Has(l, "done.ok")

\* C6: when queues.done is called, no promise tracked on the request is still
\* pending, whatever path the cycle took
C6_Claim ==
  \A l \in Loops :
    Has(l, "done") => \A i \in DOMAIN comp[l].atAck : comp[l].atAck[i] # "pending"

\* C7: store.upsert is never in flight when the request is acked: when
\* queues.done is called after store.upsert, the upsert has returned, and
\* after a failed upsert the cycle went through _requeue before it
C7_UpsertBeforeDone ==
  \A l \in Loops :
    /\ pc[l] = "storing" => ~Acked(l)
    /\ (Has(l, "upsert") /\ Has(l, "done")) =>
         /\ Has(l, "upsert.ok") \/ Has(l, "upsert.err")
         /\ Precedes(l, "upsert.ok", "done") \/ Precedes(l, "upsert.err", "done")
    /\ (Has(l, "upsert.err") /\ pc[l] \notin {"storing", "complete"}) =>
         /\ comp[l].path = "requeue"
         /\ Has(l, "repush") \/ Has(l, "pushDead")
         /\ Precedes(l, "repush.ok", "done") \/ Precedes(l, "pushDead.ok", "done")

C7_Witness ==
  \E l \in Loops :
    /\ pc[l] = "logOutcome"
    /\ Has(l, "upsert.err") /\ Has(l, "repush.ok") /\ Has(l, "done.ok")

\* C8: once context.delay of a loop is -1, the loop starts no further cycle
\* (no queues.pop), it stops only between cycles, so that a cycle in flight
\* runs to its end, and it ends up stopped with the done callback invoked
\* exactly once
C8_StopCompletes ==
  /\ [](\A l \in Loops : doneCalls[l] <= 1)
  /\ [][\A l \in Loops :
          /\ ctx[l].delay = Stopped =>
               /\ pc'[l] = "pop" => pc[l] = "pop"
               /\ Count(l, "pop")' <= Count(l, "pop")
               /\ (pc'[l] = "stopped" /\ pc[l] # "stopped") =>
                    /\ pc[l] \in {"run", "timer"}
                    /\ doneCalls'[l] = 1
          /\ pc[l] = "stopped" =>
               (pc'[l] = "stopped" /\ doneCalls'[l] = doneCalls[l])]_vars
  /\ \A l \in Loops :
       (l \in active /\ ctx[l].delay = Stopped) ~> (pc[l] = "stopped" /\ doneCalls[l] = 1)

C8_Witness ==
  \E l \in Loops :
    /\ ctx[l].delay = Stopped /\ pc[l] = "stopped" /\ doneCalls[l] = 1
    /\ queue = EmptyBag

\* C9: a cycle in which locker.unlock failed calls queues.abandon and does
\* not call queues.done
C9_Claim ==
  \A l \in Loops :
    (Has(l, "unlock.err") /\ pc[l] = "logOutcome") =>
      (Has(l, "abandon") /\ ~Has(l, "done"))

\* C10: when queues.repush or queues.pushDead of _requeue rejects, the cycle
\* never calls queues.done; it releases the lock (a held lock goes to
\* locker.unlock, request.lock is cleared) and after that calls queues.abandon
C10_RequeueFailureAbandons ==
  \A l \in Loops :
    (Has(l, "repush.err") \/ Has(l, "pushDead.err")) =>
      /\ comp[l].path = "requeue"
      /\ ~Has(l, "done")
      /\ pc[l] \in {"unlocking", "abandoning", "logOutcome"}
      /\ pc[l] \in {"abandoning", "logOutcome"} =>
           /\ Count(l, "abandon") = 1
           /\ Req(l).lock = ""
           /\ Has(l, "lock.ok") =>
                /\ Precedes(l, "unlock", "abandon")
                /\ Precedes(l, "unlock.ok", "abandon") \/ Precedes(l, "unlock.err", "abandon")

C10_Witness ==
  \E l \in Loops :
    /\ pc[l] = "logOutcome"
    /\ Has(l, "repush.err") /\ Has(l, "unlock.ok") /\ Has(l, "abandon.ok")

\* the attemptCount the delivery of loop l arrived with, 0 when it had none
DeliveredCount(l) ==
  IF Req(l).delivery[1].msg.attemptCount = NoCount THEN 0
  ELSE Req(l).delivery[1].msg.attemptCount

\* the cycle of loop l waited for request.promises and one of them rejected
ForcedRequeue(l) == comp[l].waited /\ comp[l].path = "requeue"

\* C11: a cycle whose Q.all(request.promises) rejected goes through _requeue:
\* attemptCount is the delivered count plus one, one repush (or one pushDead
\* past 5) is made, and queues.done comes only after that call returned and
\* the lock was released; a cycle that is acked without a requeue has no
\* rejected promise
C11_RejectedPromiseRequeues ==
  \A l \in Loops :
    /\ ForcedRequeue(l) =>
         /\ Popped(l)
         /\ Req(l).attemptCount = DeliveredCount(l) + 1
         /\ Count(l, "repush") = (IF Req(l).attemptCount > MaxAttempts THEN 0 ELSE 1)
         /\ Count(l, "pushDead") = (IF Req(l).attemptCount > MaxAttempts THEN 1 ELSE 0)
         /\ Has(l, "done") =>
              /\ Precedes(l, "repush.ok", "done") \/ Precedes(l, "pushDead.ok", "done")
              /\ Req(l).lock = ""
              /\ Has(l, "lock.ok") =>
                   Precedes(l, "unlock.ok", "done") \/ Precedes(l, "unlock.err", "done")
         /\ pc[l] = "logOutcome" => Acked(l)
    /\ (Acked(l) /\ comp[l].path = "happy") =>
         \A i \in DOMAIN comp[l].atAck : comp[l].atAck[i] = "resolved"

C11_Witness ==
  \E l \in Loops :
    /\ pc[l] = "logOutcome" /\ ForcedRequeue(l)
    /\ Has(l, "upsert.ok") /\ Has(l, "repush.ok") /\ Has(l, "unlock.ok") /\ Has(l, "done.ok")
    /\ Req(l).attemptCount = 1

\* C12: a cycle whose request is the synthetic _blank request carries the
\* polling delay and makes no call to the lock service, the fetcher or the
\* store, and no queue call other than the pop
C12_Claim ==
  \A l \in Loops :
    (box[l] # << >> /\ Req(l).type = "_blank") =>
      /\ Req(l).nextRequestTime = PollingDelay
      /\ ~Has(l, "lock") /\ ~Has(l, "fetch") /\ ~Has(l, "upsert")
      /\ ~Has(l, "repush") /\ ~Has(l, "pushDead")
      /\ ~Has(l, "done") /\ ~Has(l, "abandon")

\* C13 as stated: a cycle whose lock was refused as Exceeded, and in which no
\* queue call fails, repushes once with the delivered count plus one and
\* calls queues.done
C13_Original ==
  \A l \in Loops :
    (/\ Has(l, "lock.exceeded") /\ pc[l] = "logOutcome"
     /\ ~Has(l, "repush.err") /\ ~Has(l, "pushDead.err") /\ ~Has(l, "done.err")) =>
      /\ Req(l).message = "Could not lock"
      /\ ~Has(l, "fetch") /\ ~Has(l, "upsert") /\ ~Has(l, "unlock")
      /\ Count(l, "repush") = 1
      /\ Req(l).attemptCount = DeliveredCount(l) + 1
      /\ Has(l, "done")

\* C13: a cycle whose lock was refused as Exceeded marks the request
\* Requeued / Could not lock, never calls the fetcher, the Processor, the
\* store or locker.unlock, and goes through _requeue once: the count is the
\* delivered count plus one, with one repush, or one pushDead when the count
\* passes 5; queues.done follows when that call succeeded, queues.abandon
\* when it failed
C13_ExceededRequeues ==
  \A l \in Loops :
    Has(l, "lock.exceeded") =>
      /\ Popped(l)
      /\ ShouldRequeue(Req(l))
      /\ Req(l).outcome = "Requeued" /\ Req(l).message = "Could not lock"
      /\ Req(l).lock = "" /\ ~Has(l, "unlock")
      /\ ~Has(l, "fetch") /\ ~Has(l, "upsert")
      /\ Req(l).document = "" /\ Req(l).version = 0 /\ Req(l).promises = << >>
      /\ ~comp[l].waited
      /\ comp[l].path # "" =>
           /\ comp[l].path = "requeue"
           /\ Req(l).attemptCount = DeliveredCount(l) + 1
           /\ Count(l, "repush") = (IF Req(l).attemptCount > MaxAttempts THEN 0 ELSE 1)
           /\ Count(l, "pushDead") - FilterDeadCalls(l) =
                (IF Req(l).attemptCount > MaxAttempts THEN 1 ELSE 0)
      /\ pc[l] = "logOutcome" =>
           /\ (Has(l, "repush.ok") \/ Has(l, "pushDead.ok")) =>
                (Count(l, "done") = 1 /\ ~Has(l, "abandon"))
           /\ (Has(l, "repush.err") \/ Has(l, "pushDead.err")) =>
                (Count(l, "abandon") = 1 /\ ~Has(l, "done"))

C13_Witness ==
  \E l \in Loops :
    /\ pc[l] = "logOutcome" /\ Has(l, "lock.exceeded")
    /\ Req(l).delivery[1].msg.attemptCount = NoCount /\ Req(l).attemptCount = 1
    /\ Has(l, "repush.ok") /\ Has(l, "done.ok")

\* loop l is past _filter in a cycle whose calls are still on record
AfterFilter(l) ==
  pc[l] \in {"fetch", "fetching", "convert", "process", "store", "storing",
             "complete", "promises", "requeuing", "unlocking", "acking",
             "abandoning", "logOutcome"}

Malformed(r) == ~Truthy(r.url) \/ ~Truthy(r.type)

\* C14: a popped request without type or url is handed to queues.pushDead by
\* _filter, is marked Skip / Error, is never fetched, processed or stored and
\* is never repushed
C14_Claim ==
  \A l \in Loops :
    (Popped(l) /\ Malformed(Req(l)) /\ AfterFilter(l)) =>
      /\ Has(l, "pushDead")
      /\ \/ Has(l, "done.err") \/ Has(l, "abandon.err")
         \/ (Req(l).processControl = "skip" /\ Req(l).outcome = "Error")
      /\ ~Has(l, "fetch") /\ ~Has(l, "upsert")
      /\ Req(l).document = "" /\ Req(l).version = 0
      /\ ~Has(l, "repush")

\* C15: a popped request skipped as Filtered or Excluded is never handed to
\* queues.pushDead or queues.repush, nor stored or abandoned; its cycle ends
\* with one queues.done, called after the lock was released
C15_FilteredExcludedAcked ==
  \A l \in Loops :
    (Popped(l) /\ Req(l).outcome \in {"Filtered", "Excluded"} /\ AfterFilter(l)) =>
      /\ ~Has(l, "pushDead") /\ comp[l].filterDead = ""
      /\ ~Has(l, "repush") /\ ~Has(l, "abandon") /\ ~Has(l, "upsert")
      /\ comp[l].path \in {"", "happy"}
      /\ pc[l] = "logOutcome" =>
           /\ Count(l, "done") = 1
           /\ Req(l).lock = ""
           /\ Has(l, "lock.ok") =>
                Precedes(l, "unlock.ok", "done") \/ Precedes(l, "unlock.err", "done")

C15_Witness ==
  \E l \in Loops :
    /\ pc[l] = "logOutcome" /\ Popped(l) /\ Req(l).outcome = "Excluded"
    /\ Has(l, "fetch.ok") /\ Has(l, "unlock.ok") /\ Has(l, "done.ok")

\* C16: a request marked skipped is never handed to store.upsert, no handler
\* of the Processor has run for it (no version stamp, no tracked enqueue), it
\* never enters the requeue path, and when it was popped its cycle ends with
\* one queues.done
C16_SkippedNotStored ==
  \A l \in Loops :
    (box[l] # << >> /\ Req(l).processControl = "skip" /\ AfterFilter(l)) =>
      /\ ~Has(l, "upsert")
      /\ Req(l).version = 0 /\ Req(l).promises = << >>
      /\ Req(l).document # "processed"
      /\ pc[l] \notin {"fetching", "storing", "requeuing", "abandoning"}
      /\ ~Has(l, "repush") /\ ~Has(l, "abandon")
      /\ (pc[l] = "logOutcome" /\ Popped(l)) => Count(l, "done") = 1

C16_Witness ==
  \E l \in Loops :
    /\ pc[l] = "logOutcome" /\ Popped(l)
    /\ Req(l).processControl = "skip" /\ Req(l).outcome = "Unmodified"
    /\ Has(l, "fetch.ok") /\ Has(l, "done.ok")

QueuableFields == {"type", "url", "context", "policy", "attemptCount"}

\* C17: every entry of the live queue has the five fields of a queuable and
\* no other; the entry a requeue of request r produced has the type, url,
\* context and policy of r and the attemptCount r was delivered with (0 when
\* it had none) plus one
C17_QueuableProjection ==
  /\ \A e \in BagToSet(queue) : DOMAIN e.msg = QueuableFields
  /\ \A l \in Loops :
       (Popped(l) /\ Has(l, "repush.ok")) =>
         \E e \in BagToSet(queue) :
           /\ e.msg = [type |-> Req(l).type, url |-> Req(l).url,
                       context |-> Req(l).context, policy |-> Req(l).policy,
                       attemptCount |-> DeliveredCount(l) + 1]
           /\ e.msg.type = Req(l).delivery[1].msg.type
           /\ e.msg.url = Req(l).delivery[1].msg.url
           /\ e.msg.context = Req(l).delivery[1].msg.context
           /\ e.msg.policy = Req(l).delivery[1].msg.policy

C17_Witness ==
  \E l \in Loops :
    /\ pc[l] = "acking" /\ Has(l, "upsert.err") /\ Has(l, "repush.ok")
    /\ Req(l).document = "processed" /\ Req(l).promises # << >>
    /\ Req(l).attemptCount = 2

\* C18: a request whose document is handed to store.upsert went through a
\* handler of the Processor in this cycle and carries the Processor's version
C18_StoredVersion ==
  \A l \in Loops :
    (pc[l] = "storing" \/ Has(l, "upsert")) =>
      /\ Popped(l)
      /\ Req(l).document = "processed"
      /\ Req(l).version = ProcessorVersion

C18_Witness ==
  \E l \in Loops :
    pc[l] = "storing" /\ Req(l).version = ProcessorVersion /\ InFlight(l) = "upsert"

\* no external call of the cycle of loop l failed
NoFailure(l) ==
  \A i \in DOMAIN log[l] :
    log[l][i] \notin {"pop.err", "lock.err", "lock.exceeded", "fetch.err", "upsert.err",
                      "repush.err", "pushDead.err", "unlock.err", "done.err", "abandon.err"}

\* C19: a finished cycle in which the lock was granted, the document was
\* fetched, processed and stored, no call failed and every tracked enqueue
\* resolved made exactly the calls pop, lock, fetch, upsert, unlock, done, in
\* this order and once each, and left attemptCount as delivered
C19_HappyCycle ==
  \A l \in Loops :
    (/\ pc[l] = "logOutcome" /\ Popped(l) /\ NoFailure(l)
     /\ Has(l, "lock.ok") /\ Has(l, "fetch.ok") /\ Has(l, "upsert.ok")
     /\ \A i \in DOMAIN Req(l).promises : Req(l).promises[i] = "resolved") =>
      /\ log[l] = <<"pop", "pop.ok", "lock", "lock.ok", "fetch", "fetch.ok",
                    "upsert", "upsert.ok", "unlock", "unlock.ok", "done", "done.ok">>
      /\ Req(l).attemptCount = Req(l).delivery[1].msg.attemptCount
      /\ Req(l).lock = ""
      /\ comp[l].atAck = Req(l).promises

C19_Witness ==
  \E l \in Loops :
    /\ pc[l] = "logOutcome" /\ Popped(l) /\ NoFailure(l)
    /\ Has(l, "lock.ok") /\ Has(l, "fetch.ok") /\ Has(l, "upsert.ok") /\ Has(l, "done.ok")
    /\ Len(Req(l).promises) = MaxPromises
    /\ \A i \in DOMAIN Req(l).promises : Req(l).promises[i] = "resolved"

\* ------------------------------------------------------------- supervisor

\* CrawlerLoop.running(): state is 'running'; stop() sets state 'stopping'
\* together with delay -1, and the done callback sets it to 'stopped'
Running(l) == loopState[l].state = "running"

\* CrawlerService.status() of the list ls: loop.running, a method, is truthy
\* for every loop, so every element counts
Status(ls) == Len(ls)

\* target counts options.count of a reconciliation
Counts == 0..Cardinality(Loops)

\* the lists of k loops that were never started
NewLoops(k) ==
  {s \in [1..k -> Loops \ active] : \A i, j \in 1..k : s[i] = s[j] => i = j}

\* ensureLoops changed to leave this.loops unfiltered
EnsureLoops_NoPrune(n) ==
  LET kept == loops
      delta == n - Status(kept)
  IN IF delta < 0
     THEN /\ loops' = SubSeq(kept, 1 - delta, Len(kept))
          /\ loopState' = [l \in Loops |->
                             IF \E i \in 1..(0 - delta) : kept[i] = l
                             THEN [loopState[l] EXCEPT !.state = "stopping", !.last = "stop"]
                             ELSE loopState[l]]
          /\ ctx' = [l \in Loops |->
                       IF \E i \in 1..(0 - delta) : kept[i] = l
                       THEN [ctx[l] EXCEPT !.delay = Stopped] ELSE ctx[l]]
          /\ UNCHANGED <<queue, leases, active, timer, proc, pc, box, comp, log, doneCalls>>
     ELSE /\ \E new \in NewLoops(delta) :
               /\ loops' = kept \o new
               /\ active' = active \cup {new[i] : i \in 1..delta}
               /\ pc' = [l \in Loops |->
                           IF \E i \in 1..delta : new[i] = l THEN "timer" ELSE pc[l]]
               /\ loopState' = [l \in Loops |->
                                  IF \E i \in 1..delta : new[i] = l
                                  THEN [state |-> "running", last |-> "run"]
                                  ELSE loopState[l]]
               /\ ctx' = [l \in Loops |->
                            IF \E i \in 1..delta : new[i] = l
                            THEN [delay |-> 0, currentDelay |-> 0, now |-> 0] ELSE ctx[l]]
               /\ timer' = [l \in Loops |->
                              IF \E i \in 1..delta : new[i] = l THEN <<0>> ELSE timer[l]]
          /\ UNCHANGED <<queue, leases, proc, box, comp, log, doneCalls>>

\* CrawlerService.ensureLoops() with options.count = n; a new loop is run at
\* once: CrawlerLoop.run calls Crawler.run, which sets the timer.  this.options
\* is left to the caller
EnsureLoops(n) ==
  LET kept == SelectSeq(loops, Running)
      delta == n - Status(kept)
  IN IF delta < 0
     THEN /\ loops' = SubSeq(kept, 1 - delta, Len(kept))
          /\ loopState' = [l \in Loops |->
                             IF \E i \in 1..(0 - delta) : kept[i] = l
                             THEN [loopState[l] EXCEPT !.state = "stopping", !.last = "stop"]
                             ELSE loopState[l]]
          /\ ctx' = [l \in Loops |->
                       IF \E i \in 1..(0 - delta) : kept[i] = l
                       THEN [ctx[l] EXCEPT !.delay = Stopped] ELSE ctx[l]]
          /\ UNCHANGED <<queue, leases, active, timer, proc, pc, box, comp, log, doneCalls>>
     ELSE /\ \E new \in NewLoops(delta) :
               /\ loops' = kept \o new
               /\ active' = active \cup {new[i] : i \in 1..delta}
               /\ pc' = [l \in Loops |->
                           IF \E i \in 1..delta : new[i] = l THEN "timer" ELSE pc[l]]
               /\ loopState' = [l \in Loops |->
                                  IF \E i \in 1..delta : new[i] = l
                                  THEN [state |-> "running", last |-> "run"]
                                  ELSE loopState[l]]
               /\ ctx' = [l \in Loops |->
                            IF \E i \in 1..delta : new[i] = l
                            THEN [delay |-> 0, currentDelay |-> 0, now |-> 0] ELSE ctx[l]]
               /\ timer' = [l \in Loops |->
                              IF \E i \in 1..delta : new[i] = l THEN <<0>> ELSE timer[l]]
          /\ UNCHANGED <<queue, leases, proc, box, comp, log, doneCalls>>

\* the supervisor over loops that find the queues empty; no external call fails
InitService ==
  /\ queue = EmptyBag
  /\ leases = {}
  /\ active = {}
  /\ loops = << >>
  /\ options \in {[count |-> n, logLevel |-> "info", changes |-> {}] : n \in Counts}
  /\ timer = [l \in Loops |-> << >>]
  /\ proc = << >>
  /\ loopState = Started({})
  /\ pc = [l \in Loops |-> "run"]
  /\ box = [l \in Loops |-> << >>]
  /\ comp = [l \in Loops |-> NoComp]
  /\ log = [l \in Loops |-> << >>]
  /\ ctx = [l \in Loops |-> [delay |-> 0, currentDelay |-> 0, now |-> 0]]
  /\ doneCalls = [l \in Loops |-> 0]

LoopStepService(l) ==
  \/ Run(l) \/ Wake(l)
  \/ PopNothing(l)
  \/ AcquireLock(l)
  \/ Filter(l)
  \/ Fetch(l)
  \/ ConvertToDocument(l)
  \/ ProcessDocument(l)
  \/ StoreDocument(l)
  \/ CompleteRequest(l) \/ PromisesResolved(l)
  \/ DoneDone(l)
  \/ LogOutcome(l) \/ ComputeDelay(l)

\* CrawlerService.run(): ensureInitialized, then ensureLoops
ServiceRun == EnsureLoops(options.count) /\ UNCHANGED options

\* CrawlerService.stop(): return this.ensureLoops()
ServiceStop == EnsureLoops(options.count) /\ UNCHANGED options

\* paths and values of the configuration; changes holds the paths of the
\* patches of the last 'changed' event
Paths == {"/count", "/logLevel"}

Levels == {"info", "verbose"}

\* _reconfigure changed to reconcile on every event
Reconfigure_Always(paths, n, level) ==
  /\ paths # {}
  /\ "/count" \notin paths => n = options.count
  /\ "/logLevel" \notin paths => level = options.logLevel
  /\ options' = [count |-> n, logLevel |-> level, changes |-> paths]
  /\ EnsureLoops(n)

\* the 'changed' event of the configuration, which holds the new values when
\* the event is emitted, handled by CrawlerService._reconfigure(current,
\* changes); run() and stop() both end in ensureLoops()
Reconfigure(paths, n, level) ==
  /\ paths # {}
  /\ "/count" \notin paths => n = options.count
  /\ "/logLevel" \notin paths => level = options.logLevel
  /\ options' = [count |-> n, logLevel |-> level, changes |-> paths]
  /\ IF "/count" \in paths
     THEN EnsureLoops(n)
     ELSE UNCHANGED <<queue, leases, active, loops, timer, proc, loopState,
                      pc, box, comp, log, ctx, doneCalls>>

NextService ==
  \/ ServiceRun
  \/ ServiceStop
  \/ \E paths \in SUBSET Paths, n \in Counts, level \in Levels : Reconfigure(paths, n, level)
  \/ \E l \in Loops : LoopStepService(l)
  \/ \E l \in Loops : FilterDeadArrives(l)
  \/ \E l \in Loops : Stop(l)

SpecService == InitService /\ [][NextService]_vars

\* CrawlerLoop.stop() on a loop that is stopping or stopped returns at once
StopAgain(l) ==
  /\ l \in active
  /\ loopState[l].state \in {"stopped", "stopping"}
  /\ loopState' = [loopState EXCEPT ![l].last = "stop.returns"]
  /\ UNCHANGED <<queue, leases, active, loops, options, timer, proc, pc, box, comp, log,
                 ctx, doneCalls>>

\* CrawlerLoop.run changed to start a loop again
LoopRunAgain_Restarts(l) ==
  /\ l \in active
  /\ loopState[l].state # ""
  /\ loopState' = [loopState EXCEPT ![l] = [state |-> "running", last |-> "run"]]
  /\ UNCHANGED <<queue, leases, active, loops, options, timer, proc, pc, box, comp, log,
                 ctx, doneCalls>>

\* CrawlerLoop.run() on a loop whose state is set throws
LoopRunAgain(l) ==
  /\ l \in active
  /\ loopState[l].state # ""
  /\ loopState' = [loopState EXCEPT ![l].last = "run.throws"]
  /\ UNCHANGED <<queue, leases, active, loops, options, timer, proc, pc, box, comp, log,
                 ctx, doneCalls>>

\* the loops of a service whose count stays as it is, with callers of run()
\* and stop() of the loops besides the service
NextLoop ==
  \/ ServiceRun
  \/ \E l \in Loops : LoopStepService(l)
  \/ \E l \in Loops : FilterDeadArrives(l)
  \/ \E l \in Loops : Stop(l)
  \/ \E l \in Loops : StopAgain(l)
  \/ \E l \in Loops : LoopRunAgain(l)

SpecLoop == InitService /\ [][NextLoop]_vars

\* CrawlerLoop.running() after the step
RunningAfter(l) == loopState'[l].state = "running"

\* what a reconciliation to n loops does: the loops it starts, the loops it
\* stops, taken from the head or from the tail of the list of running loops,
\* and the list it leaves
Reconciled(n, fromHead) ==
  LET kept == SelectSeq(loops, Running)
      running == Len(kept)
      surplus == Max(0, running - n)
      started == active' \ active
      stopped == {l \in Loops : Running(l) /\ ~RunningAfter(l)}
  IN /\ Cardinality(started) = Max(0, n - running)
     /\ Cardinality(stopped) = surplus
     /\ stopped = IF fromHead THEN {kept[i] : i \in 1..surplus}
                  ELSE {kept[i] : i \in (running - surplus + 1)..running}
     /\ \A l \in started : RunningAfter(l) /\ \E i \in 1..n : loops'[i] = l
     /\ Len(loops') = n
     /\ \A i \in 1..n : RunningAfter(loops'[i])
     /\ \A i, j \in 1..n : loops'[i] = loops'[j] => i = j

\* C20 as stated: the loops a reconciliation stops are the last ones of the list
C20_Original == [][\A n \in Counts : EnsureLoops(n) => Reconciled(n, FALSE)]_vars

\* C20: a reconciliation to n loops drops the loops that are not running from
\* the list, then starts max(0, n - running) new loops, or stops the first
\* running - n loops of the list (the oldest ones) and takes them off the
\* list; the list then holds exactly n loops, all running
C20_ReconcileToCount == [][\A n \in Counts : EnsureLoops(n) => Reconciled(n, TRUE)]_vars

C20_Witness ==
  \E a, b \in Loops :
    /\ a # b /\ loops = <<b>> /\ Running(b)
    /\ a \in active /\ ctx[a].delay = Stopped /\ pc[a] \notin {"run", "timer", "stopped"}

\* C21: CrawlerService.stop() tells every loop of the list to stop and starts
\* no loop
C21_Claim ==
  [][ServiceStop =>
       /\ \A i \in DOMAIN loops : ctx'[loops[i]].delay = Stopped
       /\ active' = active]_vars

\* loops that can still execute a cycle: running, or stopping with the done
\* callback still to come
Alive(l) == loopState[l].state \in {"running", "stopping"}

AliveAfter(l) == loopState'[l].state \in {"running", "stopping"}

\* C22: after a reconciliation to n loops that starts a loop, no more than n
\* loops are running or stopping
C22_Claim ==
  [][\A n \in Counts :
       (EnsureLoops(n) /\ active' # active) =>
         Cardinality({l \in Loops : AliveAfter(l)}) <= n]_vars

\* C23: a 'changed' event with a /count patch reconciles the loops to the new
\* count; an event without one leaves the list of loops, the loops that exist
\* and the state, delay and timers of every loop as they were
C23_ReconfigureOnCount ==
  [][options' # options =>
       IF "/count" \in options'.changes
       THEN Reconciled(options'.count, TRUE)
       ELSE /\ options'.count = options.count
            /\ UNCHANGED <<active, loops, loopState, ctx, timer, pc>>]_vars

C23_Witness ==
  /\ options.changes = {"/count"} /\ options.count = Cardinality(Loops)
  /\ Len(loops) = options.count
  /\ \A l \in Loops : Running(l) /\ pc[l] = "timer"


\* the cycle of loop l is between the firing of its timer and run(context)
InCycle(l) == l \in active /\ pc[l] \notin {"run", "timer", "stopped"}

\* C24: a loop ends only when its delay is -1, and whatever stage of a cycle
\* fails, processOne and _computeDelay included, the loop gets from the cycle
\* to a new timer, or to its end when it was told to stop
C24_LoopSurvivesErrors ==
  /\ [](\A l \in Loops : pc[l] = "stopped" => ctx[l].delay = Stopped)
  /\ [][\A l \in Loops :
          (pc[l] = "run" /\ pc'[l] # "run") =>
            IF ctx[l].delay = Stopped THEN pc'[l] = "stopped"
            ELSE pc'[l] = "timer" /\ timer'[l] # << >>]_vars
  /\ \A l \in Loops : InCycle(l) ~> (pc[l] \in {"timer", "stopped"})

C24_Witness ==
  /\ pc["0"] = "timer" /\ timer["0"] # << >>
  /\ comp["0"].panicked
  /\ ctx["0"].delay # Stopped


\* the request in the box of loop l is the _errorTrap that _errorHandler makes
IsErrorTrap(l) ==
  /\ box[l] # << >>
  /\ Req(l).type = "_errorTrap" /\ ~Truthy(Req(l).url)
  /\ Req(l).processControl = "skip"
  /\ Req(l).outcome = "Error" /\ Req(l).message = "error"
  /\ Req(l).nextRequestTime = PollingDelay
  /\ Req(l).delivery = << >>

\* C25: when queues.pop rejects the cycle goes on to _completeRequest with an
\* _errorTrap request that has the polling delay and is skipped with the
\* error; the _errorTrap is not locked, fetched, stored, repushed or
\* dead-lettered, and an error later in the cycle leaves it as it is
C25_PopFailureTrapped ==
  /\ [](\A l \in Loops :
          Has(l, "pop.err") =>
            /\ IsErrorTrap(l)
            /\ pc[l] \in {"complete", "promises", "acking", "logOutcome"}
            /\ \A ev \in {"lock", "fetch", "upsert", "repush", "pushDead", "abandon"} :
                 ~Has(l, ev))
  /\ [][\A l \in Loops :
          /\ (pc[l] = "pop" /\ Has(l, "pop.err")') =>
               pc'[l] = "complete" /\ IsErrorTrap(l)'
          /\ (Has(l, "pop.err") /\ pc'[l] \notin {"run", "timer", "stopped"}) =>
               box'[l] = box[l]]_vars

C25_Witness ==
  /\ Has("0", "pop.err") /\ Has("0", "done.err")
  /\ IsErrorTrap("0")
  /\ pc["0"] = "logOutcome"


\* request.nextRequestTime || now
RequestGate(r, now) == IF r.nextRequestTime = 0 THEN now ELSE r.nextRequestTime

\* C26: the delay computed at the end of a cycle of a loop that is not told to
\* stop is max(0, max(now + delay, nextRequestTime, now) - now): it is not
\* negative, not less than the delay of the loop and not less than
\* nextRequestTime - now; run(context) sets the timer of the next cycle to it
\* and resets it to 0, so that it is 0 during a cycle and no cycle waits for
\* the delay of an earlier one
C26_DelayComputed ==
  /\ [](\A l \in Loops :
          /\ ctx[l].currentDelay >= 0
          /\ (InCycle(l) /\ pc[l] # "computeDelay") => ctx[l].currentDelay = 0
          /\ pc[l] = "timer" => ctx[l].currentDelay = 0)
  /\ [][\A l \in Loops :
          /\ (ComputeDelay(l) /\ ctx[l].delay # Stopped) =>
               LET now == ctx'[l].now
                   d == ctx'[l].currentDelay
                   gate == Max(Max(now + ctx[l].delay, RequestGate(Req(l), now)), now)
               IN /\ now \in ElapsedChoices
                  /\ d = Max(0, gate - now)
                  /\ d >= ctx[l].delay
                  /\ d >= Req(l).nextRequestTime - now
          /\ (pc[l] = "run" /\ pc'[l] = "timer") =>
               /\ timer'[l] = <<ctx[l].currentDelay>>
               /\ ctx'[l].currentDelay = 0
          /\ (pc[l] = "timer" /\ pc'[l] = "pop") => timer'[l] = << >>]_vars

C26_Witness ==
  /\ pc["0"] = "timer" /\ timer["0"] = <<PollingDelay>>
  /\ ctx["0"].delay = PollingDelay \div 2
  /\ ctx["0"].currentDelay = 0


\* the stages of a cycle in which _completeRequest has not returned
BeforeLogOutcome ==
  {"pop", "acquireLock", "lock", "filter", "fetch", "fetching", "convert",
   "process", "store", "storing", "complete", "promises", "requeuing",
   "unlocking", "acking", "abandoning"}

\* C27: the cycles of a loop follow each other: queues.pop is called only
\* when the timer fired that run(context) set after the _completeRequest and
\* the _logOutcome of the cycle before had finished; a loop has one request
\* at most and one pending timer at most, and a timer only between two cycles
C27_CyclesSequential ==
  /\ [](\A l \in Loops :
          /\ Len(timer[l]) <= 1
          /\ Len(box[l]) <= 1
          /\ timer[l] # << >> => (pc[l] = "timer" /\ box[l] = << >> /\ log[l] = << >>)
          /\ pc[l] \in {"computeDelay", "run", "timer"} => log[l] = << >>)
  /\ [][\A l \in Loops :
          /\ (pc'[l] = "pop" /\ pc[l] # "pop") =>
               (pc[l] = "timer" /\ timer[l] # << >> /\ timer'[l] = << >>)
          /\ (pc'[l] = "timer" /\ pc[l] # "timer") => pc[l] = "run"
          /\ (pc'[l] = "run" /\ pc[l] # "run") => pc[l] \in {"logOutcome", "computeDelay"}
          /\ (pc'[l] = "computeDelay" /\ pc[l] # "computeDelay") => pc[l] = "logOutcome"
          /\ (pc'[l] = "logOutcome" /\ pc[l] # "logOutcome") =>
               (pc[l] \in {"acking", "abandoning"} /\ Acked(l))
          /\ (pc[l] \in BeforeLogOutcome /\ pc'[l] # pc[l]) =>
               pc'[l] \in BeforeLogOutcome \cup {"logOutcome"}]_vars

C27_Witness ==
  /\ pc["0"] = "timer" /\ timer["0"] = <<PollingDelay>>
  /\ box["0"] = << >>
  /\ ctx["0"].delay = 0


\* ---------------------------------------------------------------- Processor

\* most pages the Link header of a response names, and most elements of a
\* document
MaxPages == 3

MaxElements == 2

\* Request.getCollectionType(): the type of the elements of a collection
CollectionType(type) ==
  IF type = "repos" THEN "repo" ELSE IF type = "users" THEN "user" ELSE ""

\* members of Processor that this[type] finds but that are no handlers
OtherMembers == {"version"}

ProcessorTypes == {"repo", "repos", "foo", "version"}

ElementUrls == <<"e1", "e2", "e3">>

Qualifier == "urn:org:1"

\* a request as _processDocument hands it to Processor.process: the url with
\* the page of its query (0: none), the last page that the Link header of the
\* response names (0: no Link header) and the elements of the document
Fetched(type, page, last, n, policy) ==
  [ request |-> [NewRequest(type, [base |-> "u1", page |-> page, perPage |-> 0],
                            [qualifier |-> Qualifier])
                   EXCEPT !.policy = policy, !.document = "fetched"],
    last |-> last,
    elements |-> SubSeq(ElementUrls, 1, n),
    links |-> << >>,        \* request.linkResource calls
    pushes |-> << >>,       \* calls of queues.push and of the queue methods of the request
    ran |-> << >>,          \* the handlers that ran
    returned |-> "",        \* what process returned or threw
    done |-> FALSE ]

ProcessorInputs ==
  { Fetched(type, page, last, n, policy) :
      type \in ProcessorTypes, page \in 0..2, last \in 0..MaxPages,
      n \in 0..MaxElements, policy \in {"default", "exclude"} }

\* request.queueCollectionElement(type, url, qualifier)
QueueCollectionElement(p, type, url, qualifier) ==
  [p EXCEPT !.request = Track(@, 1),
            !.pushes = Append(@, [queue |-> "normal",
                                  requests |-> <<[type |-> type, url |-> url,
                                                  policy |-> p.request.policy,
                                                  context |-> [qualifier |-> qualifier]]>>])]

RECURSIVE QueueElements(_, _, _)
QueueElements(p, elementType, i) ==
  IF i > Len(p.elements) THEN p
  ELSE QueueElements(QueueCollectionElement(p, elementType, p.elements[i],
                                            p.request.context.qualifier),
                     elementType, i + 1)

\* Processor.page(page, request)
Page(page, p) ==
  LET linked == [p EXCEPT !.ran = Append(@, [name |-> "page", page |-> page]),
                          !.links = Append(@, [name |-> "self",
                                               urn |-> <<p.request.context.qualifier,
                                                         p.request.type, "page", page>>])]
  IN QueueElements(linked, CollectionType(p.request.type), 1)

\* the request of page i that Processor.collection makes
PageRequest(p, i) ==
  [ type |-> p.request.type,
    url |-> [p.request.url EXCEPT !.page = i, !.perPage = 100],
    policy |-> p.request.policy,
    context |-> [qualifier |-> p.request.context.qualifier] ]

\* collection changed to queue the first page as well
Collection_FromPageOne(p) ==
  LET here == [p EXCEPT !.ran = Append(@, [name |-> "collection", page |-> 0])]
      queued ==
        IF p.last # 0
        THEN [here EXCEPT
                !.request = Track(@, 1),
                !.pushes = Append(@, [queue |-> "soon",
                                      requests |-> [i \in 1..p.last |-> PageRequest(p, i)]])]
        ELSE here
  IN Page(1, queued)

\* Processor.collection(request)
Collection(p) ==
  LET here == [p EXCEPT !.ran = Append(@, [name |-> "collection", page |-> 0])]
      queued ==
        IF p.last # 0
        THEN [here EXCEPT
                !.request = Track(@, 1),
                !.pushes = Append(@, [queue |-> "soon",
                                      requests |-> [i \in 1..(p.last - 1) |->
                                                      PageRequest(p, i + 1)]])]
        ELSE here
  IN Page(1, queued)

\* a handler of a type, such as Processor.repo: it links the document
TypeHandler(p) ==
  [p EXCEPT !.ran = Append(@, [name |-> p.request.type, page |-> 0]),
            !.links = Append(@, [name |-> "self", urn |-> <<"urn", p.request.type>>])]

NoHandler == [name |-> "", page |-> 0]

\* _getHandler changed to look for the handler of the type first
GetHandler_TypeFirst(r) ==
  IF r.type \in HandledTypes \cup OtherMembers THEN [name |-> r.type, page |-> 0]
  ELSE IF r.url.page # 0 THEN [name |-> "page", page |-> r.url.page]
  ELSE IF CollectionType(r.type) # "" THEN [name |-> "collection", page |-> 0]
  ELSE NoHandler

\* Processor._getHandler(request)
GetHandler(r) ==
  IF r.url.page # 0 THEN [name |-> "page", page |-> r.url.page]
  ELSE IF CollectionType(r.type) # "" THEN [name |-> "collection", page |-> 0]
  ELSE IF r.type \in HandledTypes \cup OtherMembers THEN [name |-> r.type, page |-> 0]
  ELSE NoHandler

\* Processor.process(request)
Process(p) ==
  LET handler == GetHandler(p.request)
      finished(q, what) == [q EXCEPT !.returned = what, !.done = TRUE]
      stamped(q) == [finished(q, "document") EXCEPT
                       !.request.document = "processed",
                       !.request.version = ProcessorVersion]
  IN IF handler = NoHandler
     THEN finished([p EXCEPT !.request = MarkSkip(@, "Skip", "No handler")], "document")
     ELSE IF ~ShouldProcess(p.request)
     THEN finished([p EXCEPT !.request = MarkSkip(@, "Excluded", "excluded")], "document")
     ELSE IF handler.name = "page" THEN stamped(Page(handler.page, p))
     ELSE IF handler.name = "collection" THEN stamped(Collection(p))
     ELSE IF handler.name \in OtherMembers THEN finished(p, "TypeError")
     ELSE stamped(TypeHandler(p))

\* a fetched request waits for Processor.process
InitProcessor ==
  /\ queue = EmptyBag
  /\ leases = {}
  /\ active = {}
  /\ loops = << >>
  /\ options = [count |-> 0, logLevel |-> "info", changes |-> {}]
  /\ timer = [l \in Loops |-> << >>]
  /\ proc \in {<<p>> : p \in ProcessorInputs}
  /\ loopState = Started({})
  /\ pc = [l \in Loops |-> "run"]
  /\ box = [l \in Loops |-> << >>]
  /\ comp = [l \in Loops |-> NoComp]
  /\ log = [l \in Loops |-> << >>]
  /\ ctx = [l \in Loops |-> [delay |-> 0, currentDelay |-> 0, now |-> 0]]
  /\ doneCalls = [l \in Loops |-> 0]

ProcessorProcess ==
  /\ proc # << >> /\ ~proc[1].done
  /\ proc' = <<Process(proc[1])>>
  /\ UNCHANGED <<queue, leases, active, loops, options, timer, loopState,
                 pc, box, comp, log, ctx, doneCalls>>

SpecProcessor == InitProcessor /\ [][ProcessorProcess]_vars

Processed == proc # << >> /\ proc[1].done

\* C28: _getHandler takes the page handler with the page of the url when the
\* url has one, whatever the type; else the collection handler for a
\* collection type; else the handler that has the name of the type; process
\* calls it when the policy lets it; without a handler the request is skipped
\* with outcome Skip, the document is returned as it was fetched, and nothing
\* is linked or queued
C28_HandlerDispatch ==
  Processed =>
    LET p == proc[1]
        r == p.request
        first == p.ran[1]
    IN /\ (r.url.page # 0 /\ ShouldProcess(r)) =>
            /\ p.ran = <<[name |-> "page", page |-> r.url.page]>>
            /\ p.links = <<[name |-> "self",
                            urn |-> <<Qualifier, r.type, "page", r.url.page>>]>>
       /\ (r.url.page = 0 /\ CollectionType(r.type) # "" /\ ShouldProcess(r)) =>
            first = [name |-> "collection", page |-> 0]
       /\ (r.url.page = 0 /\ CollectionType(r.type) = "" /\ r.type \in HandledTypes
             /\ ShouldProcess(r)) =>
            p.ran = <<[name |-> r.type, page |-> 0]>>
       /\ (r.url.page = 0 /\ CollectionType(r.type) = ""
             /\ r.type \notin HandledTypes \cup OtherMembers) =>
            /\ r.processControl = "skip" /\ r.outcome = "Skip"
            /\ p.returned = "document"
            /\ r.document = "fetched" /\ r.version = 0
            /\ p.ran = << >> /\ p.links = << >> /\ p.pushes = << >>
            /\ r.promises = << >>
       /\ p.ran # << >> => (p.returned = "document" /\ r.version = ProcessorVersion)

C28_Witness ==
  /\ Processed
  /\ proc[1].request.type = "repo" /\ proc[1].request.url.page = 2
  /\ proc[1].ran = <<[name |-> "page", page |-> 2]>>

\* C29: the collection handler of a response whose Link header names the last
\* page L makes one push onto soon, of the L - 1 requests of the pages 2..L,
\* each with the type, the policy and the qualifier of the request, and
\* tracks it on the request; without a Link header it pushes no page; then it
\* runs the page handler for page 1, which queues every element of the
\* document
C29_CollectionPages ==
  (Processed /\ proc[1].ran # << >> /\ proc[1].ran[1].name = "collection") =>
    LET p == proc[1]
        r == p.request
        soon == {i \in DOMAIN p.pushes : p.pushes[i].queue = "soon"}
        n == Len(p.elements)
        offset == IF p.last = 0 THEN 0 ELSE 1
    IN /\ p.last = 0 => soon = {}
       /\ p.last # 0 =>
            /\ soon = {1}
            /\ Len(p.pushes[1].requests) = p.last - 1
            /\ \A i \in 1..(p.last - 1) :
                 p.pushes[1].requests[i] =
                   [type |-> r.type,
                    url |-> [base |-> r.url.base, page |-> i + 1, perPage |-> 100],
                    policy |-> r.policy,
                    context |-> [qualifier |-> Qualifier]]
       /\ Len(r.promises) = offset + n
       /\ p.ran = <<[name |-> "collection", page |-> 0], [name |-> "page", page |-> 1]>>
       /\ p.links = <<[name |-> "self", urn |-> <<Qualifier, r.type, "page", 1>>]>>
       /\ Len(p.pushes) = offset + n
       /\ \A i \in 1..n :
            /\ p.pushes[offset + i].queue = "normal"
            /\ Len(p.pushes[offset + i].requests) = 1
            /\ p.pushes[offset + i].requests[1].url = p.elements[i]
            /\ p.pushes[offset + i].requests[1].type = CollectionType(r.type)

C29_Witness ==
  /\ Processed
  /\ proc[1].request.type = "repos" /\ proc[1].last = MaxPages
  /\ Len(proc[1].elements) = MaxElements
  /\ Len(proc[1].pushes) = 1 + MaxElements
  /\ Len(proc[1].pushes[1].requests) = MaxPages - 1


\* the changes of CrawlerLoop.state
Forward == {<<"", "running">>, <<"running", "stopping">>, <<"stopping", "stopped">>}

\* C30: the state of a CrawlerLoop changes from null to running, from running
\* to stopping and from stopping to stopped only; it is stopped only when
\* stop() set the delay to -1 and the done callback fired; stop() on a loop
\* that is stopping or stopped and run() on a loop that was started leave the
\* state and the delay as they are
C30_LoopStateForward ==
  /\ [](\A l \in Loops :
          /\ loopState[l].state \in {"", "running", "stopping", "stopped"}
          /\ loopState[l].state = "stopped" <=> doneCalls[l] > 0
          /\ loopState[l].state = "stopped" => (ctx[l].delay = Stopped /\ pc[l] = "stopped")
          /\ loopState[l].state = "stopping" => ctx[l].delay = Stopped
          /\ doneCalls[l] <= 1)
  /\ [][\A l \in Loops :
          /\ loopState'[l].state # loopState[l].state =>
               <<loopState[l].state, loopState'[l].state>> \in Forward
          /\ (loopState'[l].last # loopState[l].last
                /\ loopState'[l].last \in {"run.throws", "stop.returns"}) =>
               /\ loopState'[l].state = loopState[l].state
               /\ ctx'[l] = ctx[l] /\ pc'[l] = pc[l] /\ timer'[l] = timer[l]
          /\ (loopState'[l].last # loopState[l].last
                /\ loopState'[l].last = "stop.returns") =>
               loopState[l].state \in {"stopping", "stopped"}]_vars

C30_Witness ==
  /\ loopState["0"] = [state |-> "stopped", last |-> "run.throws"]
  /\ loopState["1"] = [state |-> "stopping", last |-> "stop.returns"]
  /\ doneCalls["0"] = 1


\* locker.unlock returned in the cycle of loop l
Unlocked(l) == Has(l, "unlock.ok") \/ Has(l, "unlock.err")

\* C31: a cycle in which _acquireLock attached a lock calls locker.unlock
\* once, after the lock was granted and before queues.done or queues.abandon
\* is called, whatever happened in between, and calls it in no other cycle;
\* from the return of unlock to the end of the cycle request.lock is empty,
\* also when unlock failed
C31_LeaseReleasedInCycle ==
  \A l \in Loops :
    /\ Count(l, "unlock") <= 1
    /\ Count(l, "unlock.ok") + Count(l, "unlock.err") <= 1
    /\ Precedes(l, "lock.ok", "unlock")
    /\ Precedes(l, "unlock", "unlock.ok") /\ Precedes(l, "unlock", "unlock.err")
    /\ (box[l] # << >> /\ Truthy(Req(l).lock)) =>
         (Has(l, "lock.ok") /\ ~Unlocked(l))
    /\ (Has(l, "lock.ok") /\ (Acked(l) \/ pc[l] = "logOutcome")) =>
         /\ Count(l, "unlock") = 1 /\ Unlocked(l)
         /\ Precedes(l, "unlock", "done") /\ Precedes(l, "unlock", "abandon")
         /\ Req(l).lock = ""
    /\ (Unlocked(l) /\ InCycle(l)) => Req(l).lock = ""
    /\ (pc[l] \in {"computeDelay", "run"} /\ box[l] # << >>) => Req(l).lock = ""
    /\ Has(l, "unlock.ok") => Req(l).url \notin leases

C31_Witness ==
  /\ pc["0"] = "logOutcome"
  /\ Has("0", "lock.ok") /\ Has("0", "unlock.err")
  /\ comp["0"].requeued = "err" /\ Has("0", "abandon.ok")
  /\ Req("0").lock = ""


\* in the cycle of loop l every call or return of bs comes after one of as
Before(l, as, bs) ==
  \A j \in DOMAIN log[l] :
    log[l][j] \in bs => \E i \in 1..(j - 1) : log[l][i] \in as

RequeueReturns == {"repush.ok", "repush.err", "pushDead.ok", "pushDead.err"}

UnlockReturns == {"unlock.ok", "unlock.err"}

\* C32: in the requeue branch of _completeRequest the one call of
\* queues.repush or queues.pushDead returns first, locker.unlock is called
\* only then and returns before queues.done or queues.abandon is called; while
\* unlock is under way the entry that was repushed is in the live queue and
\* the loop still has the lease of the url
C32_RequeueOrder ==
  \A l \in Loops :
    comp[l].path = "requeue" =>
      /\ Count(l, "repush") + Count(l, "pushDead") - FilterDeadCalls(l) = 1
      /\ Before(l, RequeueReturns, {"unlock", "done", "abandon"})
      /\ (Before(l, UnlockReturns, {"done", "abandon"}) \/ ~Has(l, "lock.ok"))
      /\ ~Has(l, "lock.ok") => ~Has(l, "unlock")
      /\ (Has(l, "lock.ok") /\ Acked(l)) => Has(l, "unlock")
      /\ pc[l] = "requeuing" =>
           /\ ~Has(l, "unlock") /\ ~Acked(l)
           /\ Has(l, "lock.ok") => (Truthy(Req(l).lock) /\ Req(l).lock \in leases)
      /\ (pc[l] = "unlocking" /\ Has(l, "repush.ok")) =>
           /\ Truthy(Req(l).lock) /\ Req(l).lock \in leases
           /\ \E e \in BagToSet(queue) : e.msg = CreateQueuable(Req(l))

C32_Witness ==
  /\ pc["0"] = "unlocking" /\ comp["0"].path = "requeue"
  /\ Has("0", "repush.ok")
  /\ Req("0").lock \in leases
  /\ \E e \in BagToSet(queue) : e.msg = CreateQueuable(Req("0"))


\* C33: queues.done is called for a popped request without type or url only
\* when the queues.pushDead of _filter has resolved, and is not called in a
\* cycle in which that pushDead failed
C33_Claim ==
  \A l \in Loops :
    (Popped(l) /\ Malformed(Req(l)) /\ Has(l, "done")) =>
      comp[l].filterDead = "ok"

====
